---- MODULE Spec2Model ----
(***************************************************************************)
(* Patient care system (Server): the SQLite store, the authentication and  *)
(* role middleware, and the route handlers of /auth, /conversations,       *)
(* /attachments, /analytics and /import.                                   *)
(***************************************************************************)
EXTENDS Integers, Sequences, FiniteSets, TLC

(***************************************************************************)
(* Bounds of the model.                                                    *)
(***************************************************************************)
MaxUsers == 7
MaxConvs == 1
MaxAttachments == 1
MaxBundles == 1
MaxParticipants == 2
MaxCalls == 2
MaxImported == 3
MaxDay == 2
PageSize == 3
MaxTs == 2

(***************************************************************************)
(* Enumerations of lib/database.                                           *)
(***************************************************************************)
UserRole == {"patient", "doctor", "admin", "quality"}

ConversationType == {"1to1", "1toN"}

ConversationStatus == {"active", "readonly", "archived"}

\* SQL NULL / JavaScript undefined for an id-valued column or field.
NULL == 0

(***************************************************************************)
(* Strings that the code inspects character by character are sequences of  *)
(* one-character strings.                                                  *)
(***************************************************************************)
AdminEmail == <<"a", "@", "x", ".", "c">>
QualityEmail == <<"q", "@", "x", ".", "c">>
DoctorEmail == <<"d", "@", "x", ".", "c">>
PatientEmail == <<"p", "@", "x", ".", "c">>
Doctor2Email == <<"e", "@", "x", ".", "c">>
Patient2Email == <<"r", "@", "x", ".", "c">>

\* E-mail values a client may send; <<>> is a missing or empty field.
NewEmail == <<"n", "@", "x", ".", "c">>
RequestEmails ==
    { NewEmail, QualityEmail,
      <<"n", "@", "x">>, <<"n", " ", "@", "x", ".", "c">>,
      <<"@", "x", ".", "c">>, <<"n", "@", "@", "x", ".", "c">>,
      <<"n", "@", "x", ".">>, <<"m", ".", "n", "@", "x", ".", "c">>, <<>> }

IsSpace(ch) == ch = " "

\* [^\s@]+ : a non-empty run without whitespace and without "@".
Plain(s) == Len(s) >= 1 /\ \A k \in 1..Len(s) : ~IsSpace(s[k]) /\ s[k] # "@"

\* /^[^\s@]+@[^\s@]+\.[^\s@]+$/.test(email)
emailRegexNoTld(email) ==
    \E i \in 1..Len(email) :
        /\ email[i] = "@"
        /\ Plain(SubSeq(email, 1, i - 1))
        /\ Plain(SubSeq(email, i + 1, Len(email)))
emailRegex(email) ==
    \E i \in 1..Len(email), j \in 1..Len(email) :
        /\ i < j
        /\ email[i] = "@"
        /\ email[j] = "."
        /\ Plain(SubSeq(email, 1, i - 1))
        /\ Plain(SubSeq(email, i + 1, j - 1))
        /\ Plain(SubSeq(email, j + 1, Len(email)))

\* Passwords are modelled by their length; 0 is a missing or empty field.
MinPasswordLength == 6
RequestPasswords == {0, MinPasswordLength - 1, MinPasswordLength}

(***************************************************************************)
(* State: the SQLite database (tables and AUTOINCREMENT sequences) and the *)
(* last HTTP exchange completed by the server. calls holds the requests    *)
(* that are suspended at an await between two store calls. client is the   *)
(* browser: the state of the App component and of the components below it. *)
(***************************************************************************)
VARIABLES db, resp, calls, client

vars == <<db, resp, calls, client>>

Tables == {"users", "conversations", "participants", "metadata", "attachments"}

\* The rows initializeDatabase and createDemoUsers leave in an empty store.
SeedUsers ==
    { [id |-> 1, email |-> AdminEmail, role |-> "admin"],
      [id |-> 2, email |-> QualityEmail, role |-> "quality"],
      [id |-> 3, email |-> DoctorEmail, role |-> "doctor"],
      [id |-> 4, email |-> PatientEmail, role |-> "patient"],
      [id |-> 5, email |-> Doctor2Email, role |-> "doctor"],
      [id |-> 6, email |-> Patient2Email, role |-> "patient"] }

\* Text as SQLite compares it under the BINARY collation: byte by byte, a
\* proper prefix before the longer text.
CharOrder ==
    <<" ", "-", "0", "1", "2", "3", "4", "5", "6", "7", "8", "9", ":">>

charCode(c) == CHOOSE i \in DOMAIN CharOrder : CharOrder[i] = c

RECURSIVE textLeq(_, _)
textLeq(a, b) ==
    IF a = <<>> THEN TRUE
    ELSE IF b = <<>> THEN FALSE
    ELSE IF Head(a) = Head(b) THEN textLeq(Tail(a), Tail(b))
    ELSE charCode(Head(a)) < charCode(Head(b))

\* x BETWEEN lo AND hi
between(x, lo, hi) == textLeq(lo, x) /\ textLeq(x, hi)

twoDigits(n) == <<CharOrder[(n \div 10) + 3], CharOrder[(n % 10) + 3]>>

\* 'YYYY-MM-DD' of the days of the model, the first days of a month.
dayText(day) == <<"2", "0", "2", "4", "-", "0", "1", "-">> \o twoDigits(day)

\* The times of day at which the clock is read.
Hours == {0, 10}

Clock == [day : 1..MaxDay, hour : Hours]

\* CURRENT_TIMESTAMP: 'YYYY-MM-DD HH:MM:SS'
CURRENT_TIMESTAMP(now) ==
    dayText(now.day) \o <<" ">> \o twoDigits(now.hour) \o <<":", "0", "0", ":", "0", "0">>

\* bcrypt: a hash is not the password, and compareSync tells whether it is
\* the hash of the password given.
hashSync(password) == [bcrypt |-> password]
compareSync(plainPassword, hashedPassword) == hashedPassword = hashSync(plainPassword)

\* The passwords of the six seeded users (admin123, quality123, doctor123,
\* patient123), each told by its length as the passwords of requests are.
DemoPassword(email) ==
    CASE email = AdminEmail -> 8
      [] email = QualityEmail -> 10
      [] email \in {DoctorEmail, Doctor2Email} -> 9
      [] OTHER -> 10

\* The password_hash column of the users table, a row per user id.
initializeDatabase ==
    [ now |-> [day |-> 1, hour |-> 0],
      users |-> SeedUsers,
      password_hash |-> {[id |-> u.id, hash |-> hashSync(DemoPassword(u.email))] :
                            u \in SeedUsers},
      conversations |-> {},
      participants |-> {},
      metadata |-> {},
      attachments |-> {},
      seq |-> [users |-> Cardinality(SeedUsers), conversations |-> 0, attachments |-> 0] ]

\* Outcome of a store call: the value it resolves with, or a rejection.
Ok(d, v) == [ok |-> TRUE, db |-> d, value |-> v]
Rejected(d) == [ok |-> FALSE, db |-> d, value |-> NULL]

getUserByEmailNoRow(d, email) ==
    [id |-> NULL, email |-> <<>>, role |-> ""]

\* SELECT * FROM users WHERE email = ?
getUserByEmail(d, email) ==
    IF \E u \in d.users : u.email = email
    THEN CHOOSE u \in d.users : u.email = email
    ELSE [id |-> NULL, email |-> <<>>, role |-> ""]

\* SELECT * FROM users WHERE id = ?
getUserById(d, id) ==
    IF \E u \in d.users : u.id = id
    THEN CHOOSE u \in d.users : u.id = id
    ELSE [id |-> NULL, email |-> <<>>, role |-> ""]

\* INSERT INTO users ...; the email column is UNIQUE, the role column is CHECKed.
createUserNoUnique(d, email, password, role) ==
    IF email = <<>> \/ role \notin UserRole
    THEN Rejected(d)
    ELSE LET id == d.seq.users + 1 IN
         Ok([d EXCEPT !.users = @ \cup {[id |-> id, email |-> email, role |-> role]},
                      !.password_hash = @ \cup {[id |-> id, hash |-> hashSync(password)]},
                      !.seq.users = id], id)
createUser(d, email, password, role) ==
    IF email = <<>> \/ (\E u \in d.users : u.email = email) \/ role \notin UserRole
    THEN Rejected(d)
    ELSE LET id == d.seq.users + 1 IN
         Ok([d EXCEPT !.users = @ \cup {[id |-> id, email |-> email, role |-> role]},
                      !.password_hash = @ \cup {[id |-> id, hash |-> hashSync(password)]},
                      !.seq.users = id], id)

\* generateTempPassword of the import: 24 characters nobody is told.
generateTempPassword == 24

(***************************************************************************)
(* envHelper: the settings read from process.env or appsettings.json. A    *)
(* string is the sequence of its parts, "" the empty sequence; a URL is    *)
(* its protocol, "//", its host and then the parts of its path.            *)
(***************************************************************************)
SettingKeys ==
    {"ResourceConnectionString", "EndpointUrl", "AdminUserId",
     "AzureBlobStorageConnectionString"}

undefined == [defined |-> FALSE, text |-> <<>>]
Text(t) == [defined |-> TRUE, text |-> t]

\* !value
falsy(value) == ~value.defined \/ value.text = <<>>

\* The module's top level: appsettings.json is required only when none of
\* the four variables is set, and must then exist.
loadAppSettings(env, file) ==
    IF \E key \in SettingKeys : ~falsy(env[key])
    THEN [thrown |-> FALSE, loaded |-> FALSE, settings |-> [key \in SettingKeys |-> undefined]]
    ELSE IF ~file.exists
    THEN [thrown |-> TRUE, loaded |-> FALSE, settings |-> [key \in SettingKeys |-> undefined]]
    ELSE [thrown |-> FALSE, loaded |-> TRUE, settings |-> file.settings]

Returned(t) == [thrown |-> FALSE, message |-> "", value |-> t]
Thrown(message) == [thrown |-> TRUE, message |-> message, value |-> <<>>]

\* process.env[key] || appSettings[key]; reading a property of the
\* appSettings that was never assigned throws a TypeError.
envOrAppSettings(env, appSettings, key) ==
    IF ~falsy(env[key])
    THEN [thrown |-> FALSE, value |-> env[key]]
    ELSE IF ~appSettings.loaded
    THEN [thrown |-> TRUE, value |-> undefined]
    ELSE [thrown |-> FALSE, value |-> appSettings.settings[key]]

\* new URL(value), and `${uri.protocol}//${uri.host}` of it.
URL(value) ==
    IF /\ value.defined /\ Len(value.text) >= 3
       /\ value.text[1] \in {"http:", "https:"} /\ value.text[2] = "//"
       /\ value.text[3] \notin {"", "/"}
    THEN Returned(SubSeq(value.text, 1, 3))
    ELSE Thrown("TypeError")

getResourceConnectionString(env, appSettings) ==
    LET resourceConnectionString == envOrAppSettings(env, appSettings, "ResourceConnectionString") IN
    IF resourceConnectionString.thrown
    THEN Thrown("TypeError")
    ELSE IF \/ falsy(resourceConnectionString.value)
            \/ resourceConnectionString.value.text = <<"REPLACE_WITH_CONNECTION_STRING">>
    THEN Thrown("No ACS connection string provided - running in demo mode")
    ELSE Returned(resourceConnectionString.value.text)

\* Every throw inside the try is replaced by the error of the catch.
getEndpoint(env, appSettings) ==
    LET endpointUrl == envOrAppSettings(env, appSettings, "EndpointUrl") IN
    IF \/ endpointUrl.thrown
       \/ falsy(endpointUrl.value)
       \/ endpointUrl.value.text = <<"REPLACE_WITH_ENDPOINT_URL">>
       \/ URL(endpointUrl.value).thrown
    THEN Thrown("Invalid endpoint URL - running in demo mode")
    ELSE URL(endpointUrl.value)

getAdminUserId(env, appSettings) ==
    LET adminUserId == envOrAppSettings(env, appSettings, "AdminUserId") IN
    IF adminUserId.thrown
    THEN Thrown("TypeError")
    ELSE IF \/ falsy(adminUserId.value)
            \/ adminUserId.value.text = <<"REPLACE_WITH_ADMIN_USER_ID">>
    THEN Thrown("No ACS Admin UserId provided - running in demo mode")
    ELSE Returned(adminUserId.value.text)

getAzureBlobStorageEndpoint(env, appSettings) ==
    LET endpointUrl == envOrAppSettings(env, appSettings, "EndpointUrl") IN
    IF endpointUrl.thrown
    THEN Thrown("TypeError")
    ELSE URL(endpointUrl.value)

getAzureBlobStorageConnectionString(env, appSettings) ==
    LET accountName == envOrAppSettings(env, appSettings, "AzureBlobStorageConnectionString") IN
    IF accountName.thrown
    THEN Thrown("TypeError")
    ELSE IF falsy(accountName.value)
    THEN Thrown("No Azure Blob Storage Connection String provided")
    ELSE Returned(accountName.value.text)

\* The five getters, each with the setting it reads.
Getters ==
    [ getResourceConnectionString |-> "ResourceConnectionString",
      getEndpoint |-> "EndpointUrl",
      getAdminUserId |-> "AdminUserId",
      getAzureBlobStorageEndpoint |-> "EndpointUrl",
      getAzureBlobStorageConnectionString |-> "AzureBlobStorageConnectionString" ]

callGetter(getter, env, appSettings) ==
    CASE getter = "getResourceConnectionString" -> getResourceConnectionString(env, appSettings)
      [] getter = "getEndpoint" -> getEndpoint(env, appSettings)
      [] getter = "getAdminUserId" -> getAdminUserId(env, appSettings)
      [] getter = "getAzureBlobStorageEndpoint" -> getAzureBlobStorageEndpoint(env, appSettings)
      [] OTHER -> getAzureBlobStorageConnectionString(env, appSettings)

(***************************************************************************)
(* Startup on a store that already exists: initializeDatabase, then        *)
(* createDemoUsers. CREATE TABLE IF NOT EXISTS leaves existing rows alone.  *)
(***************************************************************************)
\* The second half of initializeDatabase: the default admin and the default
\* quality user, each inserted when no row has its email. An insert that
\* fails rejects the promise.
initializeDefaultUsers(d) ==
    LET admin == IF getUserByEmail(d, AdminEmail).id = NULL
                 THEN createUser(d, AdminEmail, DemoPassword(AdminEmail), "admin")
                 ELSE Ok(d, NULL)
    IN IF ~admin.ok
       THEN Rejected(d)
       ELSE IF getUserByEmail(admin.db, QualityEmail).id = NULL
       THEN createUser(admin.db, QualityEmail, DemoPassword(QualityEmail), "quality")
       ELSE Ok(admin.db, NULL)

\* if (!existing) { await DatabaseService.createUser(...) } inside the try of
\* createDemoUsers: once a createUser has thrown, nothing more is created.
createDemoUserUnlessThrown(acc, existing, email, role) ==
    IF acc.thrown \/ existing.id # NULL
    THEN acc
    ELSE LET created == createUser(acc.db, email, DemoPassword(email), role) IN
         IF created.ok
         THEN [acc EXCEPT !.db = created.db]
         ELSE [acc EXCEPT !.thrown = TRUE]

createDemoUsersNoLookup(d) ==
    LET none == getUserByEmailNoRow(d, <<>>)
        doctor == createDemoUserUnlessThrown([db |-> d, thrown |-> FALSE],
                                             none, DoctorEmail, "doctor")
        patient == createDemoUserUnlessThrown(doctor, none, PatientEmail, "patient")
        doctor2 == createDemoUserUnlessThrown(patient, none, Doctor2Email, "doctor")
        patient2 == createDemoUserUnlessThrown(doctor2, none, Patient2Email, "patient")
    IN patient2.db

\* createDemoUsers: the doctor and the patient are both looked up before
\* either is created; the catch logs the error and returns.
createDemoUsers(d) ==
    LET existingDoctor == getUserByEmail(d, DoctorEmail)
        existingPatient == getUserByEmail(d, PatientEmail)
        doctor == createDemoUserUnlessThrown([db |-> d, thrown |-> FALSE],
                                             existingDoctor, DoctorEmail, "doctor")
        patient == createDemoUserUnlessThrown(doctor, existingPatient,
                                              PatientEmail, "patient")
        doctor2 == createDemoUserUnlessThrown(patient,
                                              getUserByEmail(patient.db, Doctor2Email),
                                              Doctor2Email, "doctor")
        patient2 == createDemoUserUnlessThrown(doctor2,
                                               getUserByEmail(doctor2.db, Patient2Email),
                                               Patient2Email, "patient")
    IN patient2.db

\* initializeDatabase().then(() => createDemoUsers()).catch(console.error)
startup(d) ==
    LET initialized == initializeDefaultUsers(d) IN
    IF initialized.ok THEN createDemoUsers(initialized.db) ELSE d

(***************************************************************************)
(* HTTP responses.                                                         *)
(***************************************************************************)
Reply(status, message, d) ==
    [status |-> status, message |-> message, db |-> d, data |-> <<>>]

\* A response whose body carries a payload the model keeps.
ReplyData(status, message, d, data) ==
    [status |-> status, message |-> message, db |-> d, data |-> data]

NoRequest ==
    [ route |-> "", status |-> 0, message |-> "",
      token |-> [kind |-> "none", id |-> NULL], uid |-> NULL,
      role |-> "", by |-> "", req |-> <<>>, data |-> <<>>,
      pre |-> initializeDatabase ]

\* The server answers a request: the store takes the handler's writes and the
\* exchange is recorded together with the store the request found (pre) and
\* the stage of the route's chain that answered (by).
Respond(route, tok, user, by, req, r) ==
    /\ db' = r.db
    /\ resp' = [ route |-> route, status |-> r.status, message |-> r.message,
                 token |-> tok, uid |-> user.id, role |-> user.role,
                 by |-> by, req |-> req, data |-> r.data, pre |-> db ]
    /\ UNCHANGED <<calls, client>>

\* No exchange is being recorded: the server takes the next request.
Idle == resp = NoRequest

NoToken == [kind |-> "none", id |-> NULL]
NoUser == [id |-> NULL, email |-> <<>>, role |-> ""]

(***************************************************************************)
(* AuthService.register and POST /auth/register.                           *)
(***************************************************************************)
\* AuthService.register: look the email up, insert, read the row back.
register(d, email, password, role) ==
    IF getUserByEmail(d, email).id # NULL
    THEN [success |-> FALSE, message |-> "User already exists", db |-> d]
    ELSE LET c == createUser(d, email, password, role) IN
         IF ~c.ok
         THEN [success |-> FALSE, message |-> "Registration failed", db |-> d]
         ELSE IF getUserById(c.db, c.value).id = NULL
         THEN [success |-> FALSE, message |-> "Failed to create user", db |-> c.db]
         ELSE [success |-> TRUE, message |-> "", db |-> c.db]

RegisterRoles == UserRole \cup {"superuser", ""}

RegisterBodies ==
    [ email : RequestEmails, password : RequestPasswords,
      role : RegisterRoles, display_name : {"", "N"} ]

\* The checks router.post('/register') makes before it calls the service;
\* "" when the body passes them all.
registerBodyError(body) ==
    IF body.email = <<>> \/ body.password = 0 \/ body.role = "" \/ body.display_name = ""
    THEN "All fields are required"
    ELSE IF body.role \notin UserRole
    THEN "Invalid role"
    ELSE IF ~emailRegex(body.email)
    THEN "Invalid email format"
    ELSE IF body.password < MinPasswordLength
    THEN "Password must be at least 6 characters long"
    ELSE ""

\* router.post('/register')
postRegisterNoAdmin(d, body) ==
    IF registerBodyError(body) # ""
    THEN Reply(400, registerBodyError(body), d)
    ELSE IF body.role = "admin"
    THEN Reply(400, "Invalid role", d)
    ELSE LET result == register(d, body.email, body.password, body.role) IN
         IF result.success
         THEN Reply(201, "", result.db)
         ELSE Reply(400, result.message, result.db)
postRegister(d, body) ==
    IF registerBodyError(body) # ""
    THEN Reply(400, registerBodyError(body), d)
    ELSE LET result == register(d, body.email, body.password, body.role) IN
         IF result.success
         THEN Reply(201, "", result.db)
         ELSE Reply(400, result.message, result.db)

\* user.password_hash of a row of the users table.
password_hash(d, user) ==
    (CHOOSE row \in d.password_hash : row.id = user.id).hash

\* AuthService.generateToken: a signed token that carries the user's id.
generateToken(user) == [kind |-> "valid", id |-> user.id]

\* AuthService.login
login(d, email, password) ==
    LET user == getUserByEmail(d, email) IN
    IF user.id = NULL
    THEN [success |-> FALSE, message |-> "User not found", token |-> NoToken, user |-> NoUser]
    ELSE IF ~compareSync(password, password_hash(d, user))
    THEN [success |-> FALSE, message |-> "Invalid password", token |-> NoToken, user |-> NoUser]
    ELSE [success |-> TRUE, message |-> "", token |-> generateToken(user), user |-> user]

\* router.post('/login')
postLogin(d, body) ==
    IF body.email = <<>> \/ body.password = 0
    THEN ReplyData(400, "Email and password are required", d,
                   [token |-> NoToken, user |-> NoUser])
    ELSE LET result == login(d, body.email, body.password) IN
         ReplyData(IF result.success THEN 200 ELSE 401, result.message, d,
                   [token |-> result.token, user |-> result.user])

\* A registration whose user row would exceed the model's bound is not issued.
WithinUsers(r) == Cardinality(r.db.users) <= MaxUsers

PostRegister(bodies) ==
    /\ Idle
    /\ \E body \in bodies :
        LET r == postRegister(db, body) IN
        /\ WithinUsers(r)
        /\ Respond("POST /auth/register", NoToken, NoUser, "handler", body, r)

(***************************************************************************)
(* lib/auth middleware.                                                    *)
(***************************************************************************)
\* Bearer tokens a client may present: none, one that jwt.verify rejects
\* (malformed, wrong signature, expired), or a verified one carrying a user id.
Tokens ==
    {NoToken, [kind |-> "invalid", id |-> NULL]}
        \cup {[kind |-> "valid", id |-> i] : i \in 1..(MaxUsers + 1)}

\* status 0 stands for next().
authenticateTokenUnknownUserPasses(d, tok) ==
    IF tok.kind = "none"
    THEN [status |-> 401, message |-> "Access token required", user |-> NoUser]
    ELSE IF tok.kind = "invalid"
    THEN [status |-> 403, message |-> "Invalid token", user |-> NoUser]
    ELSE [status |-> 0, message |-> "", user |-> getUserById(d, tok.id)]
authenticateToken(d, tok) ==
    IF tok.kind = "none"
    THEN [status |-> 401, message |-> "Access token required", user |-> NoUser]
    ELSE IF tok.kind = "invalid"
    THEN [status |-> 403, message |-> "Invalid token", user |-> NoUser]
    ELSE IF getUserById(d, tok.id).id = NULL
    THEN [status |-> 401, message |-> "User not found", user |-> NoUser]
    ELSE [status |-> 0, message |-> "", user |-> getUserById(d, tok.id)]

requireRoleAnyUser(roles, user) ==
    IF user.id = NULL
    THEN [status |-> 401, message |-> "Authentication required"]
    ELSE [status |-> 0, message |-> ""]
requireRole(roles, user) ==
    IF user.id = NULL
    THEN [status |-> 401, message |-> "Authentication required"]
    ELSE IF user.role \notin roles
    THEN [status |-> 403, message |-> "Insufficient permissions"]
    ELSE [status |-> 0, message |-> ""]

requirePatient == {"patient"}
requireAdmin == {"admin"}
requireDoctorOrAdmin == {"doctor", "admin"}
requireAdminOrQuality == {"admin", "quality"}
requireAnyRole == {"patient", "doctor", "admin", "quality"}

\* authenticateToken followed by requireRole(roles), as every gated route chains them.
Gate(d, tok, roles) ==
    LET a == authenticateToken(d, tok) IN
    IF a.status # 0
    THEN [status |-> a.status, message |-> a.message, user |-> a.user,
          by |-> "authenticateToken"]
    ELSE LET g == requireRole(roles, a.user) IN
         [status |-> g.status, message |-> g.message, user |-> a.user,
          by |-> "requireRole"]

\* The middleware answers; the handler does not run and the body is not read.
Refuse(route, tok, g) ==
    /\ g.status # 0
    /\ Respond(route, tok, g.user, g.by, <<>>, Reply(g.status, g.message, db))

(***************************************************************************)
(* Conversation rows and the DatabaseService calls on them.                *)
(***************************************************************************)
NoConversation ==
    [id |-> NULL, type |-> "", creator_id |-> NULL, status |-> "", assigned_doctor_id |-> NULL,
     created_at |-> <<>>]

\* SELECT * FROM conversations WHERE id = ?
getConversationById(d, id) ==
    IF \E c \in d.conversations : c.id = id
    THEN CHOOSE c \in d.conversations : c.id = id
    ELSE NoConversation

\* INSERT INTO conversations (title, type, creator_id, thread_id, assigned_doctor_id)
createConversation(d, type, creatorId, assignedDoctorId) ==
    IF type \notin ConversationType
    THEN Rejected(d)
    ELSE LET id == d.seq.conversations + 1 IN
         Ok([d EXCEPT !.conversations = @ \cup
                          {[id |-> id, type |-> type, creator_id |-> creatorId,
                            status |-> "active", assigned_doctor_id |-> assignedDoctorId,
                            created_at |-> CURRENT_TIMESTAMP(d.now)]},
                      !.seq.conversations = id], id)

\* A row of conversation_participants for the pair: what
\* UNIQUE(conversation_id, user_id) tests.
participates(d, conversationId, userId) ==
    \E p \in d.participants : p.conversation_id = conversationId /\ p.user_id = userId

\* INSERT INTO conversation_participants, the constraint aside. The rowid and
\* joined_at are read nowhere; a row is told from the others of its pair by
\* its rank among them.
insertParticipant(d, conversationId, userId) ==
    LET same == {p \in d.participants :
                    p.conversation_id = conversationId /\ p.user_id = userId}
    IN [d EXCEPT !.participants = @ \cup
                     {[conversation_id |-> conversationId, user_id |-> userId,
                       copy |-> Cardinality(same) + 1]}]

\* INSERT OR IGNORE INTO conversation_participants
addParticipantToConversationNoIgnore(d, conversationId, userId) ==
    Ok(insertParticipant(d, conversationId, userId), NULL)
addParticipantToConversation(d, conversationId, userId) ==
    IF participates(d, conversationId, userId)
    THEN Ok(d, NULL)
    ELSE Ok(insertParticipant(d, conversationId, userId), NULL)

\* INSERT INTO conversation_participants; UNIQUE(conversation_id, user_id)
addConversationParticipant(d, conversationId, userId) ==
    IF participates(d, conversationId, userId)
    THEN Rejected(d)
    ELSE Ok(insertParticipant(d, conversationId, userId), NULL)

\* SELECT u.* FROM users u JOIN conversation_participants cp ... : the ids of the rows.
getConversationParticipants(d, conversationId) ==
    {u.id : u \in {v \in d.users : participates(d, conversationId, v.id)}}

\* INSERT INTO conversation_metadata
addConversationMetadata(d, conversationId, key) ==
    Ok([d EXCEPT !.metadata = @ \cup {[conversation_id |-> conversationId, key |-> key]}], NULL)

\* UPDATE conversations SET status = ? WHERE id = ?
updateConversationStatus(d, id, status) ==
    IF status \notin ConversationStatus
    THEN Rejected(d)
    ELSE Ok([d EXCEPT !.conversations =
                {IF c.id = id THEN [c EXCEPT !.status = status] ELSE c : c \in @}], NULL)

\* The four DELETE statements, serialized on the connection.
deleteConversation(d, id) ==
    Ok([d EXCEPT !.participants = {p \in @ : p.conversation_id # id},
                 !.metadata = {m \in @ : m.conversation_id # id},
                 !.attachments = {a \in @ : a.conversation_id # id},
                 !.conversations = {c \in @ : c.id # id}], NULL)

(***************************************************************************)
(* routes/conversations.                                                   *)
(***************************************************************************)
\* parseInt of a path parameter that is not a number.
NaN == -1

ConversationIds == 1..(MaxConvs + 1) \cup {NaN}

\* Values a client may send as assigned_doctor_id: none, the seeded doctor,
\* the seeded patient, the last user id of the model, an id of no user.
AssignedIds == {NULL, 3, 4, MaxUsers, MaxUsers + 1}

ConversationBodies ==
    [ title : {"", "T"}, type : {"", "1to1", "1toN", "group"},
      assigned_doctor_id : AssignedIds ]

\* Bodies that pass the field checks of the handler.
WellFormedConversationBodies ==
    {b \in ConversationBodies : b.title # "" /\ b.type \in ConversationType}

\* getConversationsByUserId
getConversationsByUserId(d, userId) ==
    {c \in d.conversations :
        \/ c.creator_id = userId
        \/ participates(d, c.id, userId)}

\* getConversationsForDoctor
getConversationsForDoctor(d, doctorId) ==
    {c \in d.conversations :
        \/ (c.type = "1toN" /\ c.assigned_doctor_id = NULL)
        \/ c.assigned_doctor_id = doctorId
        \/ participates(d, c.id, doctorId)}

\* router.get('/'): a role outside patient, doctor and admin leaves the list
\* undefined and the map over it throws into the handler's catch.
getConversations(d, user) ==
    IF user.role \in {"patient", "doctor", "admin"}
    THEN Reply(200, "", d)
    ELSE Reply(500, "Failed to get conversations", d)

\* router.post('/'); createThread always returns a thread id.
postConversationsAnyUser(d, user, body) ==
    IF body.title = "" \/ body.type = ""
    THEN Reply(400, "Title and type are required", d)
    ELSE IF body.type \notin ConversationType
    THEN Reply(400, "Invalid conversation type", d)
    ELSE IF body.type = "1to1" /\ body.assigned_doctor_id = NULL
    THEN Reply(400, "Doctor assignment required for 1:1 conversations", d)
    ELSE IF body.type = "1to1" /\ getUserById(d, body.assigned_doctor_id).id = NULL
    THEN Reply(400, "Invalid doctor assignment", d)
    ELSE LET c == createConversation(d, body.type, user.id, body.assigned_doctor_id)
             a == addParticipantToConversation(c.db, c.value, user.id)
             b == IF body.type = "1to1" /\ body.assigned_doctor_id # NULL
                  THEN addParticipantToConversation(a.db, c.value, body.assigned_doctor_id)
                  ELSE a
         IN Reply(201, "", b.db)
postConversations(d, user, body) ==
    IF body.title = "" \/ body.type = ""
    THEN Reply(400, "Title and type are required", d)
    ELSE IF body.type \notin ConversationType
    THEN Reply(400, "Invalid conversation type", d)
    ELSE IF body.type = "1to1" /\ body.assigned_doctor_id = NULL
    THEN Reply(400, "Doctor assignment required for 1:1 conversations", d)
    ELSE IF body.type = "1to1" /\
            (getUserById(d, body.assigned_doctor_id).id = NULL
                \/ getUserById(d, body.assigned_doctor_id).role # "doctor")
    THEN Reply(400, "Invalid doctor assignment", d)
    ELSE LET c == createConversation(d, body.type, user.id, body.assigned_doctor_id)
             a == addParticipantToConversation(c.db, c.value, user.id)
             b == IF body.type = "1to1" /\ body.assigned_doctor_id # NULL
                  THEN addParticipantToConversation(a.db, c.value, body.assigned_doctor_id)
                  ELSE a
         IN Reply(201, "", b.db)

\* The access rule of router.get('/:id').
hasAccessAssignedOnly(d, user, conversation) ==
    \/ user.role = "admin"
    \/ user.id \in getConversationParticipants(d, conversation.id)
    \/ conversation.creator_id = user.id
    \/ (user.role = "doctor" /\ conversation.assigned_doctor_id = user.id)
hasAccess(d, user, conversation) ==
    \/ user.role = "admin"
    \/ user.id \in getConversationParticipants(d, conversation.id)
    \/ conversation.creator_id = user.id
    \/ (user.role = "doctor" /\
            (conversation.type = "1toN" \/ conversation.assigned_doctor_id = user.id))

\* router.get('/:id')
getConversation(d, user, id) ==
    IF id = NaN
    THEN Reply(400, "Invalid conversation ID", d)
    ELSE IF getConversationById(d, id).id = NULL
    THEN Reply(404, "Conversation not found", d)
    ELSE IF ~hasAccess(d, user, getConversationById(d, id))
    THEN Reply(403, "Access denied", d)
    ELSE Reply(200, "", d)

PatchStatuses == ConversationStatus \cup {"", "closed"}

\* router.patch('/:id')
patchConversationAnyDoctor(d, user, id, status) ==
    IF id = NaN
    THEN Reply(400, "Invalid conversation ID", d)
    ELSE IF getConversationById(d, id).id = NULL
    THEN Reply(404, "Conversation not found", d)
    ELSE IF status = ""
    THEN Reply(200, "", d)
    ELSE IF status \notin ConversationStatus
    THEN Reply(400, "Invalid status", d)
    ELSE Reply(200, "", updateConversationStatus(d, id, status).db)
patchConversation(d, user, id, status) ==
    IF id = NaN
    THEN Reply(400, "Invalid conversation ID", d)
    ELSE IF getConversationById(d, id).id = NULL
    THEN Reply(404, "Conversation not found", d)
    ELSE LET conversation == getConversationById(d, id) IN
         IF /\ user.role = "doctor"
            /\ ~ \/ user.id \in getConversationParticipants(d, id)
                 \/ conversation.assigned_doctor_id = user.id
                 \/ conversation.type = "1toN"
         THEN Reply(403, "Access denied", d)
         ELSE IF status = ""
         THEN Reply(200, "", d)
         ELSE IF status \notin ConversationStatus
         THEN Reply(400, "Invalid status", d)
         ELSE Reply(200, "", updateConversationStatus(d, id, status).db)

\* router.post('/:id/join')
joinConversation(d, user, id) ==
    IF id = NaN
    THEN Reply(400, "Invalid conversation ID", d)
    ELSE IF getConversationById(d, id).id = NULL
    THEN Reply(404, "Conversation not found", d)
    ELSE IF user.role = "doctor" /\ getConversationById(d, id).type # "1toN"
    THEN Reply(403, "Cannot join this type of conversation", d)
    ELSE Reply(200, "Successfully joined conversation",
               addParticipantToConversation(d, id, user.id).db)

\* router.delete('/:id')
deleteConversationRouteWithAccess(d, user, id) ==
    IF id = NaN
    THEN Reply(400, "Invalid conversation ID", d)
    ELSE IF getConversationById(d, id).id = NULL
    THEN Reply(404, "Conversation not found", d)
    ELSE IF ~hasAccess(d, user, getConversationById(d, id))
    THEN Reply(403, "Access denied", d)
    ELSE Reply(200, "Conversation deleted successfully", deleteConversation(d, id).db)
deleteConversationRoute(d, user, id) ==
    IF id = NaN
    THEN Reply(400, "Invalid conversation ID", d)
    ELSE IF getConversationById(d, id).id = NULL
    THEN Reply(404, "Conversation not found", d)
    ELSE Reply(200, "Conversation deleted successfully", deleteConversation(d, id).db)

(***************************************************************************)
(* lib/chat/moderator: getThreadMessages.                                  *)
(***************************************************************************)
ChatMessage(id, message, createdOn, communicationUserId) ==
    [id |-> id, content |-> [message |-> message], createdOn |-> createdOn,
     sender |-> [kind |-> "communicationUser", communicationUserId |-> communicationUserId]]

\* The three messages of demo mode; createdOn counts the seconds from the
\* first of them.
DemoMessages ==
    << ChatMessage("demo_message_1", "Hello Doctor, I need medical consultation.",
                   0, "demo_user_patient"),
       ChatMessage("demo_message_2", "Hello John, I can help you. What seems to be the issue?",
                   25, "demo_user_doctor"),
       ChatMessage("demo_message_3", "I have been experiencing headaches for the past week.",
                   55, "demo_user_patient") >>

\* The chat service as a call finds it: no connection string, no usable
\* endpoint, a client that cannot be built, a listing that fails part-way,
\* or a listing that completes.
ChatOutcomes == {"unconfigured", "no endpoint", "no client", "listing failed", "listed"}

\* What listMessages yields for a thread, newest first: nothing, messages of
\* two users, a message of a sender that is no communication user and has
\* no text.
ThreadListings ==
    { <<>>,
      << ChatMessage("2", "B", 2, "doctor"), ChatMessage("1", "A", 1, "patient") >>,
      << [id |-> "3", content |-> [message |-> ""], createdOn |-> 3,
          sender |-> [kind |-> "microsoftTeamsUser", communicationUserId |-> ""]] >> }

RECURSIVE insertByCreatedOn(_, _)
insertByCreatedOn(sorted, m) ==
    IF sorted = <<>> THEN <<m>>
    ELSE IF m.createdOn - Head(sorted).createdOn < 0
    THEN <<m>> \o sorted
    ELSE <<Head(sorted)>> \o insertByCreatedOn(Tail(sorted), m)

\* messages.sort((a, b) => timeA - timeB)
RECURSIVE sortByCreatedOn(_)
sortByCreatedOn(messages) ==
    IF messages = <<>> THEN <<>>
    ELSE insertByCreatedOn(sortByCreatedOn(SubSeq(messages, 1, Len(messages) - 1)),
                           messages[Len(messages)])

getThreadMessagesNoFallback(threadId, chat, listing) ==
    IF chat = "unconfigured"
    THEN [thrown |-> FALSE, messages |-> DemoMessages]
    ELSE IF chat # "listed"
    THEN [thrown |-> TRUE, messages |-> <<>>]
    ELSE [thrown |-> FALSE, messages |-> sortByCreatedOn(listing)]

\* getThreadMessages(threadId): the demo messages without a connection
\* string and from the catch around the real path, else the thread's
\* messages, oldest first.
getThreadMessages(threadId, chat, listing) ==
    IF chat = "unconfigured"
    THEN [thrown |-> FALSE, messages |-> DemoMessages]
    ELSE IF chat # "listed"
    THEN [thrown |-> FALSE, messages |-> DemoMessages]
    ELSE [thrown |-> FALSE, messages |-> sortByCreatedOn(listing)]

\* The messages of the export document.
formattedMessages(messages) ==
    [k \in DOMAIN messages |->
        [id |-> messages[k].id,
         content |-> messages[k].content.message,
         sender_id |-> IF messages[k].sender.kind = "communicationUser"
                       THEN messages[k].sender.communicationUserId
                       ELSE "null"]]

\* router.get('/:id/export'). The thread of a conversation is told by the
\* conversation's id: thread_id is unique and never changes.
exportConversation(d, user, id, chat, listing) ==
    IF id = NaN
    THEN Reply(400, "Invalid conversation ID", d)
    ELSE IF getConversationById(d, id).id = NULL
    THEN Reply(404, "Conversation not found", d)
    ELSE LET thread == getThreadMessages(id, chat, listing) IN
         IF thread.thrown
         THEN Reply(500, "Failed to export conversation", d)
         ELSE ReplyData(200, "", d, [messages |-> formattedMessages(thread.messages)])

\* A creation that would pass the model's bound on conversation ids is not issued.
WithinConvs(r) == r.db.seq.conversations <= MaxConvs

GetConversations ==
    /\ Idle
    /\ \E tok \in Tokens :
        LET g == Gate(db, tok, requireAnyRole) IN
        \/ Refuse("GET /conversations", tok, g)
        \/ /\ g.status = 0
           /\ Respond("GET /conversations", tok, g.user, "handler", <<>>,
                      getConversations(db, g.user))

PostConversations(bodies) ==
    /\ Idle
    /\ \E tok \in Tokens :
        LET g == Gate(db, tok, requirePatient) IN
        \/ Refuse("POST /conversations", tok, g)
        \/ /\ g.status = 0
           /\ \E body \in bodies :
                LET r == postConversations(db, g.user, body) IN
                /\ WithinConvs(r)
                /\ Respond("POST /conversations", tok, g.user, "handler", body, r)

GetConversation ==
    /\ Idle
    /\ \E tok \in Tokens :
        LET g == Gate(db, tok, requireAnyRole) IN
        \/ Refuse("GET /conversations/:id", tok, g)
        \/ /\ g.status = 0
           /\ \E id \in ConversationIds :
                Respond("GET /conversations/:id", tok, g.user, "handler", [id |-> id],
                        getConversation(db, g.user, id))

PatchConversation(statuses) ==
    /\ Idle
    /\ \E tok \in Tokens :
        LET g == Gate(db, tok, requireDoctorOrAdmin) IN
        \/ Refuse("PATCH /conversations/:id", tok, g)
        \/ /\ g.status = 0
           /\ \E id \in ConversationIds, status \in statuses :
                Respond("PATCH /conversations/:id", tok, g.user, "handler",
                        [id |-> id, status |-> status],
                        patchConversation(db, g.user, id, status))

JoinConversation ==
    /\ Idle
    /\ \E tok \in Tokens :
        LET g == Gate(db, tok, requireDoctorOrAdmin) IN
        \/ Refuse("POST /conversations/:id/join", tok, g)
        \/ /\ g.status = 0
           /\ \E id \in ConversationIds :
                Respond("POST /conversations/:id/join", tok, g.user, "handler", [id |-> id],
                        joinConversation(db, g.user, id))

DeleteConversation ==
    /\ Idle
    /\ \E tok \in Tokens :
        LET g == Gate(db, tok, requireDoctorOrAdmin) IN
        \/ Refuse("DELETE /conversations/:id", tok, g)
        \/ /\ g.status = 0
           /\ \E id \in ConversationIds :
                Respond("DELETE /conversations/:id", tok, g.user, "handler", [id |-> id],
                        deleteConversationRoute(db, g.user, id))

ExportConversation(chats) ==
    /\ Idle
    /\ \E tok \in Tokens :
        LET g == Gate(db, tok, requireDoctorOrAdmin) IN
        \/ Refuse("GET /conversations/:id/export", tok, g)
        \/ /\ g.status = 0
           /\ \E id \in ConversationIds, chat \in chats, listing \in ThreadListings :
                Respond("GET /conversations/:id/export", tok, g.user, "handler",
                        [id |-> id, chat |-> chat, listing |-> listing],
                        exportConversation(db, g.user, id, chat, listing))

(***************************************************************************)
(* routes/import: the shared import routine.                                *)
(***************************************************************************)
toLowerCase(s) ==
    [k \in 1..Len(s) |->
        IF s[k] = "D" THEN "d" ELSE IF s[k] = "Q" THEN "q" ELSE IF s[k] = "A" THEN "a" ELSE s[k]]

includes(s, sub) ==
    \E k \in 0..(Len(s) - Len(sub)) : SubSeq(s, k + 1, k + Len(sub)) = sub

mapRole(role) ==
    LET roleStr == toLowerCase(role) IN
    IF includes(roleStr, <<"a", "d", "m", "i", "n">>) THEN "admin"
    ELSE IF includes(roleStr, <<"d", "o", "c", "t", "o", "r">>) \/ includes(roleStr, <<"d", "r">>)
    THEN "doctor"
    ELSE IF includes(roleStr, <<"q", "u", "a", "l", "i", "t", "y">>) THEN "quality"
    ELSE "patient"

\* Role strings of an exported participant.
RoleStrings ==
    { <<"u", "s", "e", "r">>, <<"D", "r">>, <<"Q", "u", "a", "l", "i", "t", "y">> }

\* One participant of the loop over convData.participants. acc carries the
\* store, participantUserIds, doctorId and the two user lists of results.
importParticipant(acc, participant) ==
    LET existingUser == getUserByEmail(acc.db, participant.email) IN
    IF existingUser.id = NULL
    THEN LET role == mapRole(participant.role)
             c == createUser(acc.db, participant.email, generateTempPassword, role)
         IN IF ~c.ok
            THEN [acc EXCEPT !.skippedUsers =
                     Append(@, [email |-> participant.email,
                                reason |-> "Failed to create/find user"])]
            ELSE LET u == getUserById(c.db, c.value) IN
                 [acc EXCEPT !.db = c.db,
                             !.createdUsers = Append(@, [email |-> participant.email,
                                                         role |-> role]),
                             !.ids = Append(@, u.id),
                             !.doctorId = IF u.role = "doctor" THEN u.id ELSE @]
    ELSE [acc EXCEPT !.skippedUsers =
              Append(@, [email |-> participant.email, reason |-> "User already exists"]),
                     !.ids = Append(@, existingUser.id),
                     !.doctorId = IF existingUser.role = "doctor" THEN existingUser.id ELSE @]

RECURSIVE importParticipants(_, _)
importParticipants(acc, participants) ==
    IF participants = <<>>
    THEN acc
    ELSE importParticipants(importParticipant(acc, Head(participants)), Tail(participants))

\* The loop adding participantUserIds; a duplicate insert is logged and skipped.
RECURSIVE addParticipants(_, _, _)
addParticipants(d, conversationId, ids) ==
    IF ids = <<>>
    THEN d
    ELSE addParticipants(addConversationParticipant(d, conversationId, Head(ids)).db,
                         conversationId, Tail(ids))

ImportMetadataKeys ==
    <<"imported_from", "source_id", "original_message_count", "imported_at", "imported_by">>

RECURSIVE addMetadata(_, _, _)
addMetadata(d, conversationId, keys) ==
    IF keys = <<>>
    THEN d
    ELSE addMetadata(addConversationMetadata(d, conversationId, Head(keys)).db,
                     conversationId, Tail(keys))

\* convData.title || convData.source_id || 'Unknown'
bundleLabel(convData) ==
    IF convData.title # "" THEN convData.title
    ELSE IF convData.source_id # "" THEN convData.source_id
    ELSE "Unknown"

NoResults ==
    [successful |-> 0, failed |-> 0, errors |-> <<>>, createdUsers |-> <<>>,
     skippedUsers |-> <<>>]

\* The rest of an iteration once the participants are resolved: the thread,
\* the conversation row, its participants and its metadata.
importStore(users, convData, ids, doctorId) ==
    IF Len(ids) = 0
    THEN [users EXCEPT !.results.failed = @ + 1,
                       !.results.errors = Append(@, convData.title)]
    ELSE LET conversationType == IF convData.type = "1to1" THEN "1to1" ELSE "1toN"
             creatorId == ids[1]
             c == createConversation(users.db, conversationType, creatorId, doctorId)
             withParticipants == addParticipants(c.db, c.value, ids)
             withMetadata == addMetadata(withParticipants, c.value, ImportMetadataKeys)
         IN [users EXCEPT !.db = withMetadata,
                          !.results.successful = @ + 1]

\* One iteration of the loop over the bundles; res carries the store and
\* results. An element that is null has no title to read: the try block
\* throws, and so does the catch block, which reads the title again.
importBundle(res, convData) ==
    IF convData.isNull
    THEN [res EXCEPT !.thrown = TRUE, !.results.failed = @ + 1]
    ELSE IF convData.title = "" \/ ~convData.hasParticipants \/ ~convData.hasMessages
    THEN [res EXCEPT !.results.failed = @ + 1,
                     !.results.errors = Append(@, bundleLabel(convData))]
    ELSE LET acc == importParticipants(
                        [db |-> res.db, ids |-> <<>>, doctorId |-> NULL,
                         createdUsers |-> res.results.createdUsers,
                         skippedUsers |-> res.results.skippedUsers],
                        convData.participants)
             users == [res EXCEPT !.db = acc.db,
                                  !.results.createdUsers = acc.createdUsers,
                                  !.results.skippedUsers = acc.skippedUsers]
         IN importStore(users, convData, acc.ids, acc.doctorId)

RECURSIVE importLoop(_, _)
importLoop(res, conversations) ==
    IF conversations = <<>> \/ res.thrown
    THEN res
    ELSE importLoop(importBundle(res, Head(conversations)), Tail(conversations))

\* importConversations(conversations, importerId)
importConversations(d, conversations) ==
    importLoop([db |-> d, results |-> NoResults, thrown |-> FALSE], conversations)

\* Participants of an exported bundle: seeded accounts and a new address.
ImportParticipants ==
    { [email |-> QualityEmail, role |-> <<"u", "s", "e", "r">>],
      [email |-> DoctorEmail, role |-> <<"u", "s", "e", "r">>] }
        \cup {[email |-> NewEmail, role |-> r] : r \in RoleStrings}

ParticipantLists ==
    UNION {[1..n -> ImportParticipants] : n \in 0..MaxParticipants}

ImportBundles ==
    {[title |-> "T", source_id |-> "S", type |-> t, hasParticipants |-> TRUE,
      participants |-> ps, hasMessages |-> TRUE, isNull |-> FALSE] :
        t \in {"1to1", "direct"}, ps \in ParticipantLists}
    \cup
    {[title |-> "", source_id |-> "S", type |-> "1to1", hasParticipants |-> TRUE,
      participants |-> <<>>, hasMessages |-> TRUE, isNull |-> FALSE],
     [title |-> "T", source_id |-> "S", type |-> "1to1", hasParticipants |-> FALSE,
      participants |-> <<>>, hasMessages |-> TRUE, isNull |-> FALSE]}

ImportArrays == UNION {[1..n -> ImportBundles] : n \in 0..MaxBundles}

\* What exportDirectMessages hands over: titled 1to1 bundles of two participants.
ExportedArrays ==
    UNION {[1..n -> {b \in ImportBundles : b.type = "1to1" /\ Len(b.participants) = 2}] :
               n \in 0..MaxBundles}

\* The multipart field importFile: absent, or a file with a content type, a
\* size against the multer limit, and a content that parses or not.
NoFile ==
    [present |-> FALSE, mimetype |-> "", oversize |-> FALSE, content |-> "",
     conversations |-> <<>>]

ImportFiles ==
    {NoFile}
    \cup {[present |-> TRUE, mimetype |-> "text/plain", oversize |-> FALSE,
           content |-> "array", conversations |-> <<>>],
          [present |-> TRUE, mimetype |-> "application/json", oversize |-> TRUE,
           content |-> "array", conversations |-> <<>>]}
    \cup {[present |-> TRUE, mimetype |-> "application/json", oversize |-> FALSE,
           content |-> c, conversations |-> <<>>] :
            c \in {"notjson", "null", "scalar", "object"}}
    \cup {[present |-> TRUE, mimetype |-> "application/json", oversize |-> FALSE,
           content |-> "wrapped", conversations |-> <<>>]}
    \cup {[present |-> TRUE, mimetype |-> "application/json", oversize |-> FALSE,
           content |-> "array", conversations |-> a] : a \in ImportArrays}

\* upload.single('importFile') of routes/import: the fileFilter and the size
\* limit pass an error to next(); no error handler is installed, so Express
\* answers 500. status 0 stands for next().
importUpload(file) ==
    IF file.present /\ file.mimetype # "application/json"
    THEN [status |-> 500, message |-> "Only JSON files are allowed"]
    ELSE IF file.present /\ file.oversize
    THEN [status |-> 500, message |-> "File too large"]
    ELSE [status |-> 0, message |-> ""]

\* router.post('/conversations') of routes/import. JSON null has no property
\* to read: the shape test throws into the handler's catch.
postImportConversations(d, file) ==
    IF ~file.present
    THEN Reply(400, "Import file is required", d)
    ELSE IF file.content = "notjson"
    THEN Reply(400, "Invalid JSON file format", d)
    ELSE IF file.content = "null"
    THEN Reply(500, "Failed to import conversations", d)
    ELSE IF file.content \notin {"array", "wrapped"}
    THEN Reply(400, "Import data must be an array of conversations or contain a conversations array", d)
    ELSE LET res == importConversations(d, file.conversations) IN
         IF res.thrown
         THEN Reply(500, "Failed to import conversations", res.db)
         ELSE ReplyData(200, "Import completed", res.db, res.results)

\* RocketChat as the exporter finds it: unreachable, or serving an export.
ExporterOutcomes == {"failed", "exported"}

\* router.post('/rocketchat/export')
postRocketchatExport(d, bodyComplete, outcome) ==
    IF ~bodyComplete
    THEN Reply(400, "Server URL, username, and password are required", d)
    ELSE IF outcome = "failed"
    THEN Reply(500, "Failed to export from RocketChat", d)
    ELSE Reply(200, "Successfully exported", d)

\* router.post('/conversations/direct')
postImportDirect(d, bodyComplete, outcome, conversations) ==
    IF ~bodyComplete
    THEN Reply(400, "Server URL, username, and password are required", d)
    ELSE IF outcome = "failed"
    THEN Reply(500, "Failed to import from RocketChat", d)
    ELSE LET res == importConversations(d, conversations) IN
         IF res.thrown
         THEN Reply(500, "Failed to import from RocketChat", res.db)
         ELSE ReplyData(200, "Import completed", res.db, res.results)

WithinImport(r, cap) == WithinUsers(r) /\ r.db.seq.conversations <= cap

PostImportConversations(files, cap) ==
    /\ Idle
    /\ \E tok \in Tokens :
        LET g == Gate(db, tok, requireAdmin) IN
        \/ Refuse("POST /import/conversations", tok, g)
        \/ /\ g.status = 0
           /\ \E file \in files :
                LET m == importUpload(file)
                    r == postImportConversations(db, file)
                IN \/ /\ m.status # 0
                      /\ Respond("POST /import/conversations", tok, g.user, "upload", file,
                                 Reply(m.status, m.message, db))
                   \/ /\ m.status = 0
                      /\ WithinImport(r, cap)
                      /\ Respond("POST /import/conversations", tok, g.user, "handler", file, r)

PostRocketchatExport ==
    /\ Idle
    /\ \E tok \in Tokens :
        LET g == Gate(db, tok, requireAdmin) IN
        \/ Refuse("POST /import/rocketchat/export", tok, g)
        \/ /\ g.status = 0
           /\ \E bodyComplete \in BOOLEAN, outcome \in ExporterOutcomes :
                Respond("POST /import/rocketchat/export", tok, g.user, "handler",
                        [complete |-> bodyComplete, exporter |-> outcome],
                        postRocketchatExport(db, bodyComplete, outcome))

PostImportDirect(arrays) ==
    /\ Idle
    /\ \E tok \in Tokens :
        LET g == Gate(db, tok, requireAdmin) IN
        \/ Refuse("POST /import/conversations/direct", tok, g)
        \/ /\ g.status = 0
           /\ \E bodyComplete \in BOOLEAN, outcome \in ExporterOutcomes,
                 conversations \in arrays :
                LET r == postImportDirect(db, bodyComplete, outcome, conversations) IN
                /\ WithinImport(r, MaxConvs)
                /\ Respond("POST /import/conversations/direct", tok, g.user, "handler",
                           [complete |-> bodyComplete, exporter |-> outcome,
                            conversations |-> conversations], r)

(***************************************************************************)
(* routes/attachments.                                                     *)
(***************************************************************************)
ALLOWED_FILE_TYPES ==
    { "image/jpeg", "image/jpg", "image/png", "image/gif", "application/pdf",
      "application/msword",
      "application/vnd.openxmlformats-officedocument.wordprocessingml.document",
      "text/plain", "text/csv", "application/vnd.ms-excel",
      "application/vnd.openxmlformats-officedocument.spreadsheetml.sheet",
      "audio/mpeg", "audio/wav", "audio/ogg", "audio/mp3", "audio/webm", "audio/mp4" }

MAX_FILE_SIZE == 50 * 1024 * 1024

\* limits.fileSize of the multer instance of routes/attachments.
UploadLimit == 50 * 1024 * 1024

NoUpload == [present |-> FALSE, size |-> 0, mimetype |-> ""]

RequestMimeTypes ==
    {"image/png", "application/pdf", "audio/webm", "application/zip", "text/html"}

UploadFiles ==
    {NoUpload}
    \cup [present : {TRUE}, size : {1, MAX_FILE_SIZE, MAX_FILE_SIZE + 1},
          mimetype : RequestMimeTypes]

\* Azure Blob Storage as a request finds it: no connection string, a failing
\* call, or a working service.
StorageOutcomes == {"unconfigured", "failed", "ok"}

AttachmentIds == 1..(MaxAttachments + 1) \cup {NaN}

NoAttachment ==
    [id |-> NULL, conversation_id |-> NULL, uploader_id |-> NULL, file_size |-> 0,
     file_type |-> ""]

\* INSERT INTO attachments
createAttachment(d, conversationId, uploaderId, fileSize, fileType) ==
    LET id == d.seq.attachments + 1 IN
    Ok([d EXCEPT !.attachments = @ \cup
                     {[id |-> id, conversation_id |-> conversationId,
                       uploader_id |-> uploaderId, file_size |-> fileSize,
                       file_type |-> fileType]},
                 !.seq.attachments = id], id)

\* SELECT * FROM attachments WHERE id = ?
getAttachmentById(d, id) ==
    IF \E a \in d.attachments : a.id = id
    THEN CHOOSE a \in d.attachments : a.id = id
    ELSE NoAttachment

\* DELETE FROM attachments WHERE id = ?
deleteAttachment(d, id) ==
    Ok([d EXCEPT !.attachments = {a \in @ : a.id # id}], NULL)

\* upload.single('file') of routes/attachments: a file over limits.fileSize
\* makes multer pass an error to next(); no error handler is installed, so
\* Express answers 500. status 0 stands for next().
attachmentUpload(file) ==
    IF file.present /\ file.size > UploadLimit
    THEN [status |-> 500, message |-> "File too large"]
    ELSE [status |-> 0, message |-> ""]

\* The access rule of the three attachment routes bound to a conversation.
hasAttachmentAccessAnyDoctor(d, user, conversation) ==
    \/ user.role = "admin"
    \/ user.id \in getConversationParticipants(d, conversation.id)
    \/ conversation.creator_id = user.id
    \/ user.role = "doctor"
hasAttachmentAccess(d, user, conversation) ==
    \/ user.role = "admin"
    \/ user.id \in getConversationParticipants(d, conversation.id)
    \/ conversation.creator_id = user.id
    \/ (user.role = "doctor" /\ conversation.assigned_doctor_id = user.id)

\* router.post('/upload/:conversationId')
postUpload(d, user, conversationId, fileData, storage) ==
    IF conversationId = NaN
    THEN Reply(400, "Invalid conversation ID", d)
    ELSE IF ~fileData.present
    THEN Reply(400, "No file provided", d)
    ELSE IF fileData.size > MAX_FILE_SIZE
    THEN Reply(400, "File size exceeds 50MB limit", d)
    ELSE IF fileData.mimetype \notin ALLOWED_FILE_TYPES
    THEN Reply(400, "File type not allowed", d)
    ELSE IF getConversationById(d, conversationId).id = NULL
    THEN Reply(404, "Conversation not found", d)
    ELSE IF ~hasAttachmentAccess(d, user, getConversationById(d, conversationId))
    THEN Reply(403, "Access denied", d)
    ELSE IF storage = "unconfigured"
    THEN Reply(500, "Azure Blob Storage not configured", d)
    ELSE IF storage = "failed"
    THEN Reply(500, "Failed to upload file", d)
    ELSE LET c == createAttachment(d, conversationId, user.id, fileData.size,
                                   fileData.mimetype)
         IN ReplyData(201, "", c.db, c.value)

\* router.get('/:conversationId')
listAttachments(d, user, conversationId) ==
    IF conversationId = NaN
    THEN Reply(400, "Invalid conversation ID", d)
    ELSE IF getConversationById(d, conversationId).id = NULL
    THEN Reply(404, "Conversation not found", d)
    ELSE IF ~hasAttachmentAccess(d, user, getConversationById(d, conversationId))
    THEN Reply(403, "Access denied", d)
    ELSE Reply(200, "", d)

\* router.get('/download/:attachmentId')
downloadAttachment(d, user, attachmentId, storage) ==
    IF attachmentId = NaN
    THEN Reply(400, "Invalid attachment ID", d)
    ELSE IF getAttachmentById(d, attachmentId).id = NULL
    THEN Reply(404, "Attachment not found", d)
    ELSE LET attachment == getAttachmentById(d, attachmentId)
             conversation == getConversationById(d, attachment.conversation_id)
         IN IF conversation.id = NULL
            THEN Reply(404, "Conversation not found", d)
            ELSE IF ~hasAttachmentAccess(d, user, conversation)
            THEN Reply(403, "Access denied", d)
            ELSE IF storage # "ok"
            THEN Reply(500, "Failed to generate download URL", d)
            ELSE Reply(200, "", d)

\* router.delete('/:attachmentId'): a failing blob deletion is logged only.
deleteAttachmentRouteBlobFatal(d, user, attachmentId, storage) ==
    IF attachmentId = NaN
    THEN Reply(400, "Invalid attachment ID", d)
    ELSE IF getAttachmentById(d, attachmentId).id = NULL
    THEN Reply(404, "Attachment not found", d)
    ELSE IF user.role # "admin" /\ getAttachmentById(d, attachmentId).uploader_id # user.id
    THEN Reply(403, "Only the uploader or admin can delete this attachment", d)
    ELSE IF storage # "ok"
    THEN Reply(500, "Failed to delete attachment", d)
    ELSE Reply(200, "Attachment deleted successfully", deleteAttachment(d, attachmentId).db)
deleteAttachmentRoute(d, user, attachmentId, storage) ==
    IF attachmentId = NaN
    THEN Reply(400, "Invalid attachment ID", d)
    ELSE IF getAttachmentById(d, attachmentId).id = NULL
    THEN Reply(404, "Attachment not found", d)
    ELSE IF user.role # "admin" /\ getAttachmentById(d, attachmentId).uploader_id # user.id
    THEN Reply(403, "Only the uploader or admin can delete this attachment", d)
    ELSE Reply(200, "Attachment deleted successfully", deleteAttachment(d, attachmentId).db)

WithinAttachments(r) == r.db.seq.attachments <= MaxAttachments

PostUpload(files, outcomes) ==
    /\ Idle
    /\ \E tok \in Tokens :
        LET g == Gate(db, tok, requireAnyRole) IN
        \/ Refuse("POST /attachments/upload/:conversationId", tok, g)
        \/ /\ g.status = 0
           /\ \E id \in ConversationIds, file \in files, storage \in outcomes :
                LET m == attachmentUpload(file)
                    r == postUpload(db, g.user, id, file, storage)
                    req == [id |-> id, file |-> file, storage |-> storage]
                IN \/ /\ m.status # 0
                      /\ Respond("POST /attachments/upload/:conversationId", tok, g.user,
                                 "upload", req, Reply(m.status, m.message, db))
                   \/ /\ m.status = 0
                      /\ WithinAttachments(r)
                      /\ Respond("POST /attachments/upload/:conversationId", tok, g.user,
                                 "handler", req, r)

ListAttachments ==
    /\ Idle
    /\ \E tok \in Tokens :
        LET g == Gate(db, tok, requireAnyRole) IN
        \/ Refuse("GET /attachments/:conversationId", tok, g)
        \/ /\ g.status = 0
           /\ \E id \in ConversationIds :
                Respond("GET /attachments/:conversationId", tok, g.user, "handler", [id |-> id],
                        listAttachments(db, g.user, id))

DownloadAttachment(outcomes) ==
    /\ Idle
    /\ \E tok \in Tokens :
        LET g == Gate(db, tok, requireAnyRole) IN
        \/ Refuse("GET /attachments/download/:attachmentId", tok, g)
        \/ /\ g.status = 0
           /\ \E id \in AttachmentIds, storage \in outcomes :
                Respond("GET /attachments/download/:attachmentId", tok, g.user, "handler",
                        [id |-> id, storage |-> storage],
                        downloadAttachment(db, g.user, id, storage))

DeleteAttachment(outcomes) ==
    /\ Idle
    /\ \E tok \in Tokens :
        LET g == Gate(db, tok, requireAnyRole) IN
        \/ Refuse("DELETE /attachments/:attachmentId", tok, g)
        \/ /\ g.status = 0
           /\ \E id \in AttachmentIds, storage \in outcomes :
                Respond("DELETE /attachments/:attachmentId", tok, g.user, "handler",
                        [id |-> id, storage |-> storage],
                        deleteAttachmentRoute(db, g.user, id, storage))

(***************************************************************************)
(* routes/analytics and routes/users.                                      *)
(***************************************************************************)
\* DatabaseService.getAnalytics: the counts over the conversations, filtered
\* by the date range when both ends are given.
getAnalytics(d, startDate, endDate) ==
    LET rows == IF startDate # <<>> /\ endDate # <<>>
                THEN {c \in d.conversations : between(c.created_at, startDate, endDate)}
                ELSE d.conversations
    IN [totalConversations |-> Cardinality(rows),
        openConversations |-> Cardinality({c \in rows : c.status = "active"})]

\* DatabaseService.getCurrentDayAnalytics
getCurrentDayAnalytics(d) ==
    LET today == dayText(d.now.day)
        startOfDay == today \o <<" ", "0", "0", ":", "0", "0", ":", "0", "0">>
        endOfDay == today \o <<" ", "2", "3", ":", "5", "9", ":", "5", "9">>
        rows == {c \in d.conversations : between(c.created_at, startOfDay, endOfDay)}
    IN [totalConversations |-> Cardinality(rows),
        openConversations |-> Cardinality({c \in rows : c.status = "active"})]

\* Elasticsearch and the store as an export finds them: the ping fails, the
\* index cannot be created, the aggregate query is rejected, the index call
\* is rejected, or the document is indexed.
SearchOutcomes == {"unreachable", "no index", "no analytics", "not indexed", "indexed"}

\* error.message of what a failing step throws.
errorMessage(outcome) ==
    IF outcome = "no index" THEN "index_not_created"
    ELSE IF outcome = "no analytics" THEN "SQLITE_ERROR"
    ELSE "index_rejected"

\* The body of exportAnalytics and of exportTodayAnalytics, which differ in
\* the aggregate they read and in the message of success. indexed tells
\* whether client.index stored the document.
exportDocument(outcome, analyticsData, successMessage, caught) ==
    IF outcome = "unreachable"
    THEN [success |-> FALSE, message |-> <<"Unable to connect to Elasticsearch">>,
          indexed |-> FALSE, document |-> <<>>, thrown |-> FALSE]
    ELSE IF outcome # "indexed"
    THEN [success |-> FALSE, message |-> <<"Export failed: ", errorMessage(outcome)>>,
          indexed |-> FALSE, document |-> <<>>, thrown |-> ~caught]
    ELSE [success |-> TRUE, message |-> <<successMessage>>,
          indexed |-> TRUE, document |-> analyticsData, thrown |-> FALSE]

exportAnalyticsNoCatch(d, startDate, endDate, outcome) ==
    exportDocument(outcome, getAnalytics(d, startDate, endDate),
                   "Analytics data exported to Elasticsearch successfully", FALSE)

\* ElasticsearchService.exportAnalytics
exportAnalytics(d, startDate, endDate, outcome) ==
    exportDocument(outcome, getAnalytics(d, startDate, endDate),
                   "Analytics data exported to Elasticsearch successfully", TRUE)

\* ElasticsearchService.exportTodayAnalytics
exportTodayAnalytics(d, outcome) ==
    exportDocument(outcome, getCurrentDayAnalytics(d),
                   "Today's analytics data exported to Elasticsearch successfully", TRUE)

\* What a route answers with the result of the service: res.json(result),
\* res.status(500).json(result), or the answer of its own catch.
exportReply(d, result, caughtMessage) ==
    IF result.thrown
    THEN ReplyData(500, caughtMessage, d,
                   [success |-> FALSE, message |-> <<caughtMessage>>, indexed |-> result.indexed])
    ELSE ReplyData(IF result.success THEN 200 ELSE 500, result.message[1], d,
                   [success |-> result.success, message |-> result.message,
                    indexed |-> result.indexed])

\* router.post('/export')
postAnalyticsExport(d, body, outcome) ==
    exportReply(d, exportAnalytics(d, body.startDate, body.endDate, outcome),
                "Failed to export analytics data to Elasticsearch")

\* router.post('/export/today')
postAnalyticsExportToday(d, outcome) ==
    exportReply(d, exportTodayAnalytics(d, outcome),
                "Failed to export today's analytics data to Elasticsearch")

\* Bodies of POST /analytics/export: no range, or the first day.
ExportBodies ==
    { [startDate |-> <<>>, endDate |-> <<>>],
      [startDate |-> dayText(1), endDate |-> dayText(1)] }

\* router.get('/') of routes/analytics
getAnalyticsRoute(d, query) ==
    IF query.period = "today"
    THEN ReplyData(200, "", d, getCurrentDayAnalytics(d))
    ELSE ReplyData(200, "", d, getAnalytics(d, query.startDate, query.endDate))

\* Query strings of GET /analytics; <<>> is a parameter left out.
AnalyticsQueries ==
    [ startDate : {dayText(day) : day \in 1..MaxDay} \cup {<<>>},
      endDate : {dayText(day) : day \in 1..MaxDay} \cup {<<>>},
      period : {"", "today"} ]

GetAnalytics(queries) ==
    /\ Idle
    /\ \E tok \in Tokens :
        LET g == Gate(db, tok, requireAdminOrQuality) IN
        \/ Refuse("GET /analytics", tok, g)
        \/ /\ g.status = 0
           /\ \E query \in queries :
                Respond("GET /analytics", tok, g.user, "handler", query,
                        getAnalyticsRoute(db, query))

\* Time passes between two requests.
Tick ==
    /\ Idle
    /\ \E t \in Clock :
        /\ t.day > db.now.day \/ (t.day = db.now.day /\ t.hour > db.now.hour)
        /\ db' = [db EXCEPT !.now = t]
    /\ UNCHANGED <<resp, calls, client>>

\* The routes that read the store and answer 200: GET /analytics/summary,
\* GET /users/doctors, GET /users/profile.
ReadRoutes ==
    { [route |-> "GET /analytics/summary", roles |-> requireAdminOrQuality],
      [route |-> "GET /users/doctors", roles |-> requireAnyRole],
      [route |-> "GET /users/profile", roles |-> requireAnyRole] }

ExportRoutes == {"POST /analytics/export", "POST /analytics/export/today"}

GetRead ==
    /\ Idle
    /\ \E tok \in Tokens, rt \in ReadRoutes :
        LET g == Gate(db, tok, rt.roles) IN
        \/ Refuse(rt.route, tok, g)
        \/ /\ g.status = 0
           /\ Respond(rt.route, tok, g.user, "handler", <<>>, Reply(200, "", db))

PostAnalyticsExport ==
    /\ Idle
    /\ \E tok \in Tokens :
        LET g == Gate(db, tok, requireAdminOrQuality) IN
        \/ Refuse("POST /analytics/export", tok, g)
        \/ /\ g.status = 0
           /\ \E body \in ExportBodies, outcome \in SearchOutcomes :
                Respond("POST /analytics/export", tok, g.user, "handler",
                        [body |-> body, search |-> outcome],
                        postAnalyticsExport(db, body, outcome))

PostAnalyticsExportToday ==
    /\ Idle
    /\ \E tok \in Tokens :
        LET g == Gate(db, tok, requireAdminOrQuality) IN
        \/ Refuse("POST /analytics/export/today", tok, g)
        \/ /\ g.status = 0
           /\ \E outcome \in SearchOutcomes :
                Respond("POST /analytics/export/today", tok, g.user, "handler",
                        [search |-> outcome],
                        postAnalyticsExportToday(db, outcome))

(***************************************************************************)
(* Requests in flight. AuthService.register and the participant loop of    *)
(* importConversations await the store three times for one address: the    *)
(* lookup by email, the insert and the read-back. Node runs other requests *)
(* at each await, so each store call is a step of its own here.            *)
(***************************************************************************)
Calls == 1..MaxCalls

NoBody == [email |-> <<>>, password |-> 0, role |-> "", display_name |-> ""]

NoBundle ==
    [title |-> "", source_id |-> "", type |-> "", hasParticipants |-> FALSE,
     participants |-> <<>>, hasMessages |-> FALSE, isNull |-> FALSE]

NoCall ==
    [ op |-> "", pc |-> "idle", body |-> NoBody, convData |-> NoBundle, rest |-> <<>>,
      userId |-> NULL, ids |-> <<>>, doctorId |-> NULL,
      createdUsers |-> <<>>, skippedUsers |-> <<>>, status |-> 0, message |-> "",
      conversationId |-> NULL, file |-> NoUpload,
      mayReturn |-> 0, messages |-> <<>>, allMessages |-> <<>>, oldest |-> NULL,
      returned |-> <<>>,
      totalQueries |-> 0, waiting |-> {}, completedQueries |-> 0,
      promise |-> [state |-> "", value |-> NULL], firstError |-> NULL, errorCount |-> 0 ]

Done(c, status, message) ==
    [c EXCEPT !.pc = "done", !.status = status, !.message = message]

\* router.post('/register') up to the call of AuthService.register.
RegisterStart(s, bodies) ==
    /\ calls[s].pc = "idle"
    /\ \E body \in bodies :
        LET c == [calls[s] EXCEPT !.op = "register", !.body = body] IN
        calls' = [calls EXCEPT ![s] =
                      IF registerBodyError(body) # ""
                      THEN Done(c, 400, registerBodyError(body))
                      ELSE [c EXCEPT !.pc = "lookup"]]
    /\ UNCHANGED <<db, resp, client>>

\* await DatabaseService.getUserByEmail(email)
RegisterLookup(s) ==
    /\ calls[s].op = "register"
    /\ calls[s].pc = "lookup"
    /\ calls' = [calls EXCEPT ![s] =
                     IF getUserByEmail(db, @.body.email).id # NULL
                     THEN Done(@, 400, "User already exists")
                     ELSE [@ EXCEPT !.pc = "insert"]]
    /\ UNCHANGED <<db, resp, client>>

\* await DatabaseService.createUser(...); a rejection lands in the catch.
RegisterInsert(s) ==
    /\ calls[s].op = "register"
    /\ calls[s].pc = "insert"
    /\ LET c == createUser(db, calls[s].body.email, calls[s].body.password,
                       calls[s].body.role) IN
       /\ db' = c.db
       /\ calls' = [calls EXCEPT ![s] =
                        IF ~c.ok
                        THEN Done(@, 400, "Registration failed")
                        ELSE [@ EXCEPT !.pc = "readback", !.userId = c.value]]
    /\ UNCHANGED <<resp, client>>

\* await DatabaseService.getUserById(userId), then the 201.
RegisterReadBack(s) ==
    /\ calls[s].op = "register"
    /\ calls[s].pc = "readback"
    /\ LET body == calls[s].body IN
       calls' = [calls EXCEPT ![s] =
                     IF getUserById(db, @.userId).id = NULL
                     THEN Done(@, 400, "Failed to create user")
                     ELSE Done([@ EXCEPT !.createdUsers =
                                    <<[email |-> body.email, role |-> body.role]>>],
                               201, "")]
    /\ UNCHANGED <<db, resp, client>>

\* The loop moves to the next participant, or on to the conversation.
NextParticipant(c) ==
    [c EXCEPT !.rest = Tail(@),
              !.pc = IF Tail(c.rest) = <<>> THEN "store" ELSE "lookup"]

\* An administrator's import of one bundle, up to its first store call.
ImportStart(s, bundles) ==
    /\ calls[s].pc = "idle"
    /\ \E tok \in Tokens : Gate(db, tok, requireAdmin).status = 0
    /\ \E convData \in bundles :
        LET c == [calls[s] EXCEPT !.op = "import", !.convData = convData,
                                  !.rest = convData.participants] IN
        calls' = [calls EXCEPT ![s] =
                      IF convData.isNull
                      THEN Done(c, 500, "Failed to import conversations")
                      ELSE IF convData.title = "" \/ ~convData.hasParticipants
                            \/ ~convData.hasMessages
                      THEN Done(c, 200, "Import completed")
                      ELSE IF convData.participants = <<>>
                      THEN [c EXCEPT !.pc = "store"]
                      ELSE [c EXCEPT !.pc = "lookup"]]
    /\ UNCHANGED <<db, resp, client>>

\* let existingUser = await DatabaseService.getUserByEmail(participant.email)
ImportLookup(s) ==
    /\ calls[s].op = "import"
    /\ calls[s].pc = "lookup"
    /\ LET participant == Head(calls[s].rest)
           existingUser == getUserByEmail(db, participant.email)
       IN calls' = [calls EXCEPT ![s] =
              IF existingUser.id = NULL
              THEN [@ EXCEPT !.pc = "insert"]
              ELSE NextParticipant(
                       [@ EXCEPT !.skippedUsers =
                                     Append(@, [email |-> participant.email,
                                                reason |-> "User already exists"]),
                                 !.ids = Append(@, existingUser.id),
                                 !.doctorId = IF existingUser.role = "doctor"
                                              THEN existingUser.id ELSE @])]
    /\ UNCHANGED <<db, resp, client>>

\* const userId = await DatabaseService.createUser(...); a rejection lands
\* in the catch of the participant.
ImportInsert(s) ==
    /\ calls[s].op = "import"
    /\ calls[s].pc = "insert"
    /\ LET participant == Head(calls[s].rest)
           c == createUser(db, participant.email, generateTempPassword,
                           mapRole(participant.role))
       IN /\ db' = c.db
          /\ calls' = [calls EXCEPT ![s] =
                 IF ~c.ok
                 THEN NextParticipant(
                          [@ EXCEPT !.skippedUsers =
                               Append(@, [email |-> participant.email,
                                          reason |-> "Failed to create/find user"])])
                 ELSE [@ EXCEPT !.pc = "readback", !.userId = c.value]]
    /\ UNCHANGED <<resp, client>>

\* existingUser = await DatabaseService.getUserById(userId), then the push
\* to createdUsers.
ImportReadBack(s) ==
    /\ calls[s].op = "import"
    /\ calls[s].pc = "readback"
    /\ LET participant == Head(calls[s].rest)
           u == getUserById(db, calls[s].userId)
           created == [calls[s] EXCEPT !.createdUsers =
                           Append(@, [email |-> participant.email,
                                      role |-> mapRole(participant.role)])]
       IN calls' = [calls EXCEPT ![s] =
              NextParticipant(
                  IF u.id = NULL
                  THEN created
                  ELSE [created EXCEPT !.ids = Append(@, u.id),
                                       !.doctorId = IF u.role = "doctor" THEN u.id ELSE @])]
    /\ UNCHANGED <<resp, client>>
    /\ UNCHANGED <<db, client>>

\* The rest of the iteration, then the response; the rows of a conversation
\* carry ids of its own and do not meet the rows of another request.
ImportStore(s) ==
    /\ calls[s].op = "import"
    /\ calls[s].pc = "store"
    /\ LET r == importStore([db |-> db, results |-> NoResults, thrown |-> FALSE],
                            calls[s].convData,
                            calls[s].ids, calls[s].doctorId)
       IN /\ db' = r.db
          /\ calls' = [calls EXCEPT ![s] = Done(@, 200, "Import completed")]
    /\ UNCHANGED <<resp, client>>

\* router.post('/:id/join') up to its insert: the middleware, the lookup of
\* the conversation and the test of its type.
JoinStart(s) ==
    /\ Idle
    /\ calls[s].pc = "idle"
    /\ \E tok \in Tokens, id \in ConversationIds :
        LET g == Gate(db, tok, requireDoctorOrAdmin)
            r == joinConversation(db, g.user, id)
            c == [calls[s] EXCEPT !.op = "join", !.userId = g.user.id,
                                  !.conversationId = id]
        IN calls' = [calls EXCEPT ![s] =
                         IF g.status # 0 THEN Done(c, g.status, g.message)
                         ELSE IF r.status # 200 THEN Done(c, r.status, r.message)
                         ELSE [c EXCEPT !.pc = "insert"]]
    /\ UNCHANGED <<db, resp, client>>

\* await DatabaseService.addParticipantToConversation(conversationId, user.id)
JoinInsert(s) ==
    /\ Idle
    /\ calls[s].op = "join"
    /\ calls[s].pc = "insert"
    /\ db' = addParticipantToConversation(db, calls[s].conversationId, calls[s].userId).db
    /\ calls' = [calls EXCEPT ![s] = Done(@, 200, "Successfully joined conversation")]
    /\ UNCHANGED <<resp, client>>

\* router.post('/upload/:conversationId') up to the calls of the blob
\* service: the middleware, multer, the checks of the file, the lookup of the
\* conversation, the access rule and the connection string.
UploadStart(s, files, outcomes) ==
    /\ Idle
    /\ calls[s].pc = "idle"
    /\ \E tok \in Tokens, id \in ConversationIds, file \in files, storage \in outcomes :
        LET g == Gate(db, tok, requireAnyRole)
            m == attachmentUpload(file)
            r == postUpload(db, g.user, id, file, storage)
            c == [calls[s] EXCEPT !.op = "upload", !.userId = g.user.id,
                                  !.conversationId = id, !.file = file]
        IN calls' = [calls EXCEPT ![s] =
                         IF g.status # 0 THEN Done(c, g.status, g.message)
                         ELSE IF m.status # 0 THEN Done(c, m.status, m.message)
                         ELSE IF r.status \notin {201, 500} \/ storage = "unconfigured"
                         THEN Done(c, r.status, r.message)
                         ELSE [c EXCEPT !.pc = "blob", !.message = storage]]
    /\ UNCHANGED <<db, resp, client>>

\* The awaited calls of the blob service, then
\* await DatabaseService.createAttachment(...) and the 201.
UploadStore(s) ==
    /\ Idle
    /\ calls[s].op = "upload"
    /\ calls[s].pc = "blob"
    /\ IF calls[s].message = "failed"
       THEN /\ calls' = [calls EXCEPT ![s] = Done(@, 500, "Failed to upload file")]
            /\ UNCHANGED <<db, client>>
       ELSE /\ db' = createAttachment(db, calls[s].conversationId, calls[s].userId,
                                      calls[s].file.size, calls[s].file.mimetype).db
            /\ calls' = [calls EXCEPT ![s] = Done(@, 201, "")]
    /\ UNCHANGED <<resp, client>>

\* Requests that meet on one address: a new one, and one the seed holds.
RaceBodies ==
    [ email : {NewEmail, DoctorEmail}, password : {MinPasswordLength},
      role : {"patient", "doctor"}, display_name : {"N"} ]
        \cup {[email |-> NewEmail, password |-> MinPasswordLength - 1,
               role |-> "patient", display_name |-> "N"]}

RaceParticipantLists ==
    { <<[email |-> NewEmail, role |-> <<"u", "s", "e", "r">>]>>,
      <<[email |-> NewEmail, role |-> <<"D", "r">>]>>,
      <<[email |-> DoctorEmail, role |-> <<"u", "s", "e", "r">>],
        [email |-> NewEmail, role |-> <<"u", "s", "e", "r">>]>>,
      <<[email |-> NewEmail, role |-> <<"u", "s", "e", "r">>],
        [email |-> NewEmail, role |-> <<"D", "r">>]>> }

RaceBundles ==
    {[title |-> "T", source_id |-> "S", type |-> "1to1", hasParticipants |-> TRUE,
      participants |-> ps, hasMessages |-> TRUE, isNull |-> FALSE] : ps \in RaceParticipantLists}
    \cup
    {[title |-> "", source_id |-> "S", type |-> "1to1", hasParticipants |-> TRUE,
      participants |-> <<>>, hasMessages |-> TRUE, isNull |-> FALSE]}

(***************************************************************************)
(* RocketChatExporter.getAllMessagesFromRoom: one step per iteration of    *)
(* the paging loop, which awaits the server, and one for the sort. A        *)
(* message is its ts field: a time from 1 to MaxTs, or NULL for a message   *)
(* without ts. PageSize stands for the count of 1000 asked of the server.   *)
(***************************************************************************)
Messages == [ts : {NULL} \cup 1..MaxTs]

\* The batches a server may answer with when its answers grow successively
\* smaller: those of fewer than mayReturn messages.
Batches(mayReturn) == UNION {[1..n -> Messages] : n \in 0..(mayReturn - 1)}

\* new Date(ts).getTime()
getTime(ts) == IF ts = NULL THEN NaN ELSE ts

RECURSIVE insertByTime(_, _)
insertByTime(sorted, m) ==
    IF sorted = <<>> THEN <<m>>
    ELSE IF getTime(m.ts) - getTime(Head(sorted).ts) < 0
    THEN <<m>> \o sorted
    ELSE <<Head(sorted)>> \o insertByTime(Tail(sorted), m)

RECURSIVE sortedByTime(_)
sortedByTime(messages) ==
    IF messages = <<>> THEN <<>>
    ELSE insertByTime(sortedByTime(SubSeq(messages, 1, Len(messages) - 1)),
                      messages[Len(messages)])

sortByTimeAsFetched(messages) == {messages}

\* allMessages.sort((a, b) => new Date(a.ts).getTime() - new Date(b.ts).getTime()),
\* as the set of the orders it may produce. The sort is stable. A message
\* without ts makes the comparator answer NaN, which is no consistent
\* comparison: the order is then left to the implementation.
sortByTime(messages) ==
    IF \A k \in DOMAIN messages : getTime(messages[k].ts) # NaN
    THEN {sortedByTime(messages)}
    ELSE {[k \in DOMAIN messages |-> messages[q[k]]] : q \in Permutations(DOMAIN messages)}

\* const allMessages = []; let oldest = undefined; the server answers a
\* request with at most the count asked.
PagingStart(s) ==
    /\ calls[s].pc = "idle"
    /\ calls' = [calls EXCEPT ![s] =
                    [@ EXCEPT !.op = "paging", !.pc = "fetch", !.mayReturn = PageSize + 1]]
    /\ UNCHANGED <<db, resp, client>>

\* One iteration of while (true), with the batch the server answers.
PagingIteration(s) ==
    /\ calls[s].op = "paging"
    /\ calls[s].pc = "fetch"
    /\ \E messages \in Batches(calls[s].mayReturn) :
        LET fetched == [calls[s] EXCEPT !.messages = messages,
                                        !.mayReturn = Len(messages)]
            pushed == [fetched EXCEPT !.allMessages = @ \o messages]
            oldestMessage == messages[Len(messages)]
        IN calls' = [calls EXCEPT ![s] =
                        IF Len(messages) = 0
                        THEN [fetched EXCEPT !.pc = "sort"]
                        ELSE IF oldestMessage.ts = NULL
                        THEN [pushed EXCEPT !.pc = "sort"]
                        ELSE IF Len(messages) < PageSize
                        THEN [pushed EXCEPT !.oldest = oldestMessage.ts, !.pc = "sort"]
                        ELSE [pushed EXCEPT !.oldest = oldestMessage.ts]]
    /\ UNCHANGED <<db, resp, client>>

\* return allMessages.sort(...)
PagingReturn(s) ==
    /\ calls[s].op = "paging"
    /\ calls[s].pc = "sort"
    /\ \E result \in sortByTime(calls[s].allMessages) :
        calls' = [calls EXCEPT ![s] = [@ EXCEPT !.pc = "done", !.returned = result]]
    /\ UNCHANGED <<db, resp, client>>

(***************************************************************************)
(* DatabaseService.getAnalytics and getCurrentDayAnalytics as the promise   *)
(* they build: every sub-query is issued at once and its callback runs when *)
(* SQLite has its answer, one step per callback. A sub-query is its number. *)
(* firstError and errorCount record which callbacks were handed an error.   *)
(***************************************************************************)
Aggregates == {"getAnalytics", "getCurrentDayAnalytics"}

\* const totalQueries = 8 / const totalQueries = 6
totalQueries(aggregate) == IF aggregate = "getAnalytics" THEN 8 ELSE 6

\* resolve and reject of a promise: the first call settles it, later calls
\* have no effect.
resolve(c, value) ==
    IF c.promise.state = "pending"
    THEN [c EXCEPT !.promise = [state |-> "fulfilled", value |-> value]]
    ELSE c
reject(c, err) ==
    IF c.promise.state = "pending"
    THEN [c EXCEPT !.promise = [state |-> "rejected", value |-> err]]
    ELSE c

checkCompleteAtFirst(c) ==
    LET counted == [c EXCEPT !.completedQueries = @ + 1] IN
    IF counted.completedQueries >= 1
    THEN resolve(counted, counted.completedQueries)
    ELSE counted
\* completedQueries++; if (completedQueries === totalQueries) resolve(analytics)
checkComplete(c) ==
    LET counted == [c EXCEPT !.completedQueries = @ + 1] IN
    IF counted.completedQueries = counted.totalQueries
    THEN resolve(counted, counted.completedQueries)
    ELSE counted

\* (err, row) => { if (err) reject(err); else { ...; checkComplete(); } }
queryCallback(c, query, err) ==
    IF err
    THEN reject([c EXCEPT !.firstError = IF @ = NULL THEN query ELSE @,
                          !.errorCount = @ + 1], query)
    ELSE checkComplete(c)

\* new Promise((resolve, reject) => { ... db.get(...); db.all(...); ... })
AggregateStart(s) ==
    /\ calls[s].pc = "idle"
    /\ \E aggregate \in Aggregates :
        calls' = [calls EXCEPT ![s] =
                     [@ EXCEPT !.op = aggregate, !.pc = "queries",
                               !.totalQueries = totalQueries(aggregate),
                               !.waiting = 1..totalQueries(aggregate),
                               !.promise = [state |-> "pending", value |-> NULL]]]
    /\ UNCHANGED <<db, resp, client>>

\* SQLite hands one of the sub-queries still out its answer, an error or a
\* result.
AggregateCallback(s) ==
    /\ calls[s].op \in Aggregates
    /\ calls[s].pc = "queries"
    /\ \E query \in calls[s].waiting, err \in BOOLEAN :
        LET called == queryCallback([calls[s] EXCEPT !.waiting = @ \ {query}], query, err) IN
        calls' = [calls EXCEPT ![s] =
                     IF called.waiting = {} THEN [called EXCEPT !.pc = "done"] ELSE called]
    /\ UNCHANGED <<db, resp, client>>

(***************************************************************************)
(* The browser App component: its page state, the user it holds, the       *)
(* auth_token entry of localStorage, the thread id of the URL, and the     *)
(* position of checkAuth, which awaits authAPI.verifyToken.                 *)
(***************************************************************************)
NoRemoval == [participantsRemoved |-> {}, removedBy |-> ""]

\* No page is loaded in the browser.
NoApp ==
    [ page |-> "closed", user |-> NULL, auth_token |-> "", threadIdInURL |-> FALSE,
      checkAuth |-> "idle", verifyResult |-> "", userId |-> "",
      removal |-> NoRemoval, reloaded |-> FALSE ]

\* The VoiceRecorder component as it is first rendered: its state, its
\* refs (the media recorder, the recorded blob, the timer), the onstop
\* events the browser has still to deliver, the handler the user called
\* last and whether that handler called onVoiceRecorded.
NoRecorder ==
    [ isRecording |-> FALSE, showRecordingDialog |-> FALSE, recordingTime |-> 0,
      hasRecording |-> FALSE, error |-> FALSE,
      mediaRecorder |-> "none", recordedBlob |-> FALSE, recordingTimer |-> FALSE,
      stopEvents |-> 0, handler |-> "", onVoiceRecorded |-> FALSE ]

\* What a client of the API holds: the body of the registration that was
\* accepted, the email it logged in with, and the auth_token it stored.
NoSession ==
    [ registered |-> [email |-> <<>>, password |-> 0, role |-> "", display_name |-> ""],
      via |-> "", email |-> <<>>, auth_token |-> [kind |-> "none", id |-> NULL] ]

NoClient == [app |-> NoApp, recorder |-> NoRecorder, session |-> NoSession]

\* localStorage 'auth_token': none, the token of a session, a token the
\* server no longer verifies.
StoredTokens == {"", "valid", "expired"}

\* The user a valid token names.
SessionUser == (CHOOSE u \in SeedUsers : u.email = PatientEmail).id

\* authAPI.verifyToken against router.get('/verify'): the fetch or the
\* parsing of its answer throws, or the server answers success with the
\* token's user, or 401 with success: false.
verifyToken(auth_token, network) ==
    IF network = "down"
    THEN [thrown |-> TRUE, success |-> FALSE, user |-> NULL]
    ELSE IF auth_token = "valid"
    THEN [thrown |-> FALSE, success |-> TRUE, user |-> SessionUser]
    ELSE [thrown |-> FALSE, success |-> FALSE, user |-> NULL]

\* The end of checkAuth: the thread id of the URL decides the page.
fallThrough(app) ==
    [app EXCEPT !.page = IF app.threadIdInURL THEN "configuration" ELSE "auth",
                !.checkAuth = "done"]

\* The first render and the mount effect, up to the await of checkAuth. A
\* thread id in the URL turns the loading page into configuration at once.
mount(app) ==
    LET rendered == [app EXCEPT !.page = IF app.threadIdInURL THEN "configuration"
                                         ELSE "loading",
                                !.user = NULL, !.userId = "", !.verifyResult = "",
                                !.removal = NoRemoval]
    IN IF rendered.auth_token # ""
       THEN [rendered EXCEPT !.checkAuth = "verifying"]
       ELSE fallThrough(rendered)

\* checkAuth after the await.
checkAuth(app, result) ==
    IF result.thrown
    THEN fallThrough([app EXCEPT !.auth_token = "", !.verifyResult = "thrown"])
    ELSE IF result.success /\ result.user # NULL
    THEN [app EXCEPT !.user = result.user, !.page = "dashboard", !.checkAuth = "done",
                     !.verifyResult = "verified"]
    ELSE fallThrough([app EXCEPT !.verifyResult = "refused"])

\* endChatHandler of the chat page.
endChatHandler(app, isParticipantRemoved) ==
    [app EXCEPT !.page = IF isParticipantRemoved THEN "removed" ELSE "end"]

\* adapter.on('participantsRemoved', ...) of ChatScreen; removal keeps the
\* event that ended the chat.
participantsRemoved(app, listener) ==
    IF app.userId \in listener.participantsRemoved
    THEN endChatHandler([app EXCEPT !.removal = listener], listener.removedBy # app.userId)
    ELSE app

\* homeHandler of the end and removed pages; assigning window.location.href
\* loads the page anew from the URL without its query.
homeHandler(app) ==
    IF app.user # NULL
    THEN [app EXCEPT !.page = "dashboard"]
    ELSE [NoApp EXCEPT !.auth_token = app.auth_token, !.reloaded = TRUE]

AppStep(app) ==
    /\ client' = [client EXCEPT !.app = app]
    /\ UNCHANGED <<db, resp, calls>>

\* The browser loads the application: on a first visit with any stored
\* token and with or without a thread id in the URL, after a reload with
\* what the reload left.
Mount(tokens) ==
    /\ client.app.page = "closed"
    /\ \/ /\ ~client.app.reloaded
          /\ \E auth_token \in tokens, threadIdInURL \in BOOLEAN :
                AppStep(mount([client.app EXCEPT !.auth_token = auth_token,
                                                 !.threadIdInURL = threadIdInURL]))
       \/ /\ client.app.reloaded
          /\ AppStep(mount(client.app))

\* The request of authAPI.verifyToken is answered or fails.
VerifyAnswered ==
    /\ client.app.checkAuth = "verifying"
    /\ \E network \in {"up", "down"} :
        AppStep(checkAuth(client.app, verifyToken(client.app.auth_token, network)))

\* LoginScreen: a login that succeeded stores the token and calls
\* handleLoginSuccess.
LoginSuccess ==
    /\ client.app.page = "auth"
    /\ AppStep([client.app EXCEPT !.auth_token = "valid", !.user = SessionUser,
                                  !.page = "dashboard"])

\* handleLogout, called by the Dashboard's sign-out action, which may
\* remove the stored token.
Logout ==
    /\ client.app.page = "dashboard"
    /\ \E auth_token \in {"", client.app.auth_token} :
        AppStep([client.app EXCEPT !.user = NULL, !.page = "auth", !.userId = "",
                                  !.auth_token = auth_token])

\* handleJoinChat, called by the Dashboard and the Start-Consultation screen.
JoinChat ==
    /\ client.app.page = "dashboard"
    /\ AppStep([client.app EXCEPT !.page = "configuration"])

\* joinChatHandler, called by the Configuration screen once it has set the
\* token, the user id, the display name, the thread id and the endpoint.
JoinChatHandler ==
    /\ client.app.page = "configuration"
    /\ AppStep([client.app EXCEPT !.page = "chat", !.userId = "me",
                                  !.removal = NoRemoval])

\* The chat adapter reports participants removed from the thread.
ChatUsers == {"me", "other"}
RemovalEvents ==
    [participantsRemoved : (SUBSET ChatUsers) \ {{}}, removedBy : ChatUsers]

ParticipantsRemoved(listeners) ==
    /\ client.app.page = "chat"
    /\ \E listener \in listeners :
        AppStep(participantsRemoved(client.app, listener))

\* rejoinHandler of the end page.
Rejoin ==
    /\ client.app.page = "end"
    /\ AppStep([client.app EXCEPT !.page = "chat", !.removal = NoRemoval])

Home ==
    /\ client.app.page \in {"end", "removed"}
    /\ AppStep(homeHandler(client.app))

NextApp ==
    \/ Mount(StoredTokens)
    \/ VerifyAnswered
    \/ LoginSuccess
    \/ Logout
    \/ JoinChat
    \/ JoinChatHandler
    \/ ParticipantsRemoved(RemovalEvents)
    \/ Rejoin
    \/ Home

(***************************************************************************)
(* The VoiceRecorder component. MediaRecorder.stop() returns at once and   *)
(* the browser delivers the stop event to onstop in a later task.          *)
(***************************************************************************)
MaxTime == 8
MaxStops == 2

openRecordingDialog(r) == [r EXCEPT !.showRecordingDialog = TRUE, !.error = FALSE]

\* getUserMedia grants the microphone or rejects.
startRecording(r, getUserMedia) ==
    IF getUserMedia = "granted"
    THEN [r EXCEPT !.error = FALSE, !.mediaRecorder = "recording",
                   !.isRecording = TRUE, !.recordingTime = 0, !.recordingTimer = TRUE]
    ELSE [r EXCEPT !.error = TRUE]

stopRecording(r) ==
    IF r.mediaRecorder # "none" /\ r.isRecording
    THEN [r EXCEPT !.mediaRecorder = "inactive", !.stopEvents = @ + 1,
                   !.isRecording = FALSE, !.recordingTimer = FALSE]
    ELSE r

\* mediaRecorder.onstop
onstop(r) ==
    [r EXCEPT !.recordedBlob = TRUE, !.hasRecording = TRUE, !.stopEvents = @ - 1]

discardRecording(r) ==
    [r EXCEPT !.recordedBlob = FALSE, !.hasRecording = FALSE, !.recordingTime = 0,
              !.showRecordingDialog = FALSE]

sendRecording(r) ==
    IF r.recordedBlob
    THEN discardRecording([r EXCEPT !.onVoiceRecorded = TRUE])
    ELSE r

\* The second test reads the hasRecording of the render the handler was
\* created in, which stopRecording does not change.
closeRecordingDialog(r) ==
    LET stopped == IF r.isRecording THEN stopRecording(r) ELSE r IN
    IF ~r.hasRecording
    THEN [stopped EXCEPT !.showRecordingDialog = FALSE, !.recordingTime = 0]
    ELSE stopped

\* A handler the user called, or an event the browser delivered.
RecorderStep(handler, r) ==
    /\ client' = [client EXCEPT !.recorder =
                      [r EXCEPT !.handler = IF handler = "" THEN @ ELSE handler,
                                !.onVoiceRecorded = IF handler = "" THEN @
                                                    ELSE r.onVoiceRecorded /\ handler = "sendRecording"]]
    /\ UNCHANGED <<db, resp, calls>>

\* The microphone button under the blocking dialog.
OpenRecordingDialog ==
    /\ ~client.recorder.showRecordingDialog
    /\ RecorderStep("openRecordingDialog",
                    openRecordingDialog([client.recorder EXCEPT !.onVoiceRecorded = FALSE]))

\* The microphone button of the dialog, rendered while nothing is recorded
\* and nothing recording.
StartRecording ==
    /\ client.recorder.showRecordingDialog
    /\ ~client.recorder.hasRecording /\ ~client.recorder.isRecording
    /\ client.recorder.stopEvents < MaxStops
    /\ \E getUserMedia \in {"granted", "denied"} :
        RecorderStep("startRecording",
                     startRecording([client.recorder EXCEPT !.onVoiceRecorded = FALSE],
                                    getUserMedia))

\* The interval of one second.
RecordingTimer ==
    /\ client.recorder.recordingTimer
    /\ client.recorder.recordingTime < MaxTime
    /\ RecorderStep("", [client.recorder EXCEPT !.recordingTime = @ + 1])

\* The Stop Recording button.
StopRecording ==
    /\ client.recorder.showRecordingDialog
    /\ client.recorder.isRecording
    /\ RecorderStep("stopRecording",
                    stopRecording([client.recorder EXCEPT !.onVoiceRecorded = FALSE]))

\* The browser delivers a stop event.
OnStop ==
    /\ client.recorder.stopEvents > 0
    /\ RecorderStep("", onstop(client.recorder))

\* The Re-record button.
DiscardRecording ==
    /\ client.recorder.showRecordingDialog
    /\ ~client.recorder.isRecording /\ client.recorder.hasRecording
    /\ RecorderStep("discardRecording",
                    discardRecording([client.recorder EXCEPT !.onVoiceRecorded = FALSE]))

\* The Send button.
SendRecording ==
    /\ client.recorder.showRecordingDialog
    /\ ~client.recorder.isRecording /\ client.recorder.hasRecording
    /\ RecorderStep("sendRecording",
                    sendRecording([client.recorder EXCEPT !.onVoiceRecorded = FALSE]))

\* The Cancel button of each of the three footers, and the dialog's
\* onDismiss.
CloseRecordingDialog ==
    /\ client.recorder.showRecordingDialog
    /\ RecorderStep("closeRecordingDialog",
                    closeRecordingDialog([client.recorder EXCEPT !.onVoiceRecorded = FALSE]))

NextRecorder ==
    \/ OpenRecordingDialog
    \/ StartRecording
    \/ RecordingTimer
    \/ StopRecording
    \/ OnStop
    \/ DiscardRecording
    \/ SendRecording
    \/ CloseRecordingDialog

(***************************************************************************)
(* A client that registers and logs in without a token, and the requests   *)
(* to the admin-only routes under any token.                                *)
(***************************************************************************)
\* The server answers a request of the client, which keeps what it learned.
RespondToClient(route, req, r, session) ==
    /\ db' = r.db
    /\ resp' = [ route |-> route, status |-> r.status, message |-> r.message,
                 token |-> NoToken, uid |-> NULL, role |-> "",
                 by |-> "handler", req |-> req, data |-> r.data, pre |-> db ]
    /\ client' = [client EXCEPT !.session = session]
    /\ UNCHANGED calls

\* The roles of the RegisterScreen's dropdown.
roleOptions == {"patient", "doctor", "quality"}

\* authAPI.register, called by the RegisterScreen with a role of its
\* dropdown or by any other client with any role; no Authorization header
\* is needed.
ClientRegister(bodies) ==
    /\ Idle
    /\ \E body \in bodies, via \in {"RegisterScreen", "fetch"} :
        LET r == postRegister(db, body) IN
        /\ via = "RegisterScreen" => body.role \in roleOptions
        /\ WithinUsers(r)
        /\ RespondToClient("POST /auth/register", body, r,
                           IF r.status = 201
                           THEN [client.session EXCEPT !.registered = body, !.via = via]
                           ELSE client.session)

\* authAPI.login; the LoginScreen stores the token of a successful login.
ClientLogin(bodies) ==
    /\ Idle
    /\ \E body \in bodies :
        LET r == postLogin(db, body) IN
        RespondToClient("POST /auth/login", body, r,
                        IF r.status = 200
                        THEN [client.session EXCEPT !.email = body.email,
                                                    !.auth_token = r.data.token]
                        ELSE client.session)

SelfRegistrations ==
    [ email : {NewEmail, AdminEmail}, password : {MinPasswordLength},
      role : UserRole \cup {"superuser"}, display_name : {"N"} ]

LoginBodies ==
    [ email : {NewEmail, AdminEmail, <<>>},
      password : {0, MinPasswordLength, MinPasswordLength + 1, DemoPassword(AdminEmail)} ]

Init ==
    /\ db = initializeDatabase
    /\ resp = NoRequest
    /\ calls = [s \in Calls |-> NoCall]
    /\ client = NoClient

SpecRecorder == Init /\ [][NextRecorder]_vars

SpecApp == Init /\ [][NextApp]_vars

\* The client has read the response; the record of the exchange is dropped.
EndExchange ==
    /\ resp # NoRequest
    /\ resp' = NoRequest
    /\ UNCHANGED <<db, calls, client>>

\* The server process starts on the store as it is: the startup chain runs
\* to its end before the first request is served.
Startup ==
    /\ db' = startup(db)
    /\ resp' = [NoRequest EXCEPT !.route = "startup", !.by = "startup", !.pre = db]
    /\ UNCHANGED <<calls, client>>

\* A getter of envHelper is called in a process whose environment and
\* settings file are as given; the module has loaded.
GetSetting(envs, files) ==
    /\ Idle
    /\ \E getter \in DOMAIN Getters, env \in envs, file \in files :
        LET appSettings == loadAppSettings(env, file) IN
        /\ ~appSettings.thrown
        /\ resp' = [NoRequest EXCEPT !.route = getter, !.by = "envHelper",
                                     !.req = [env |-> env, file |-> file],
                                     !.data = callGetter(getter, env, appSettings)]
    /\ UNCHANGED <<db, calls, client>>

\* Registrations that pass every check of the route.
WellFormedRegisterBodies ==
    [ email : {NewEmail}, password : {MinPasswordLength},
      role : UserRole, display_name : {"N"} ]

Next ==
    \/ PostRegister(WellFormedRegisterBodies)
    \/ GetConversations
    \/ PostConversations(ConversationBodies)
    \/ GetConversation
    \/ PatchConversation(PatchStatuses)
    \/ JoinConversation
    \/ DeleteConversation
    \/ ExportConversation(ChatOutcomes)
    \/ PostImportConversations(ImportFiles, MaxConvs)
    \/ PostRocketchatExport
    \/ PostImportDirect(ExportedArrays)
    \/ EndExchange

Spec == Init /\ [][Next]_vars

(***************************************************************************)
(* Every route behind the middleware, each with one request that reaches   *)
(* its handler's main path.                                                *)
(***************************************************************************)
OpenConversationBody == [title |-> "T", type |-> "1toN", assigned_doctor_id |-> NULL]

SmallPng == [present |-> TRUE, size |-> 1, mimetype |-> "image/png"]

EmptyImport ==
    [present |-> TRUE, mimetype |-> "application/json", oversize |-> FALSE,
     content |-> "array", conversations |-> <<>>]

NextGate ==
    \/ PostRegister(WellFormedRegisterBodies)
    \/ GetConversations
    \/ PostConversations({OpenConversationBody})
    \/ GetConversation
    \/ PatchConversation({"archived"})
    \/ JoinConversation
    \/ DeleteConversation
    \/ ExportConversation({"unconfigured"})
    \/ PostImportConversations({EmptyImport}, MaxConvs)
    \/ PostRocketchatExport
    \/ PostImportDirect({<<>>})
    \/ PostUpload({SmallPng}, {"ok"})
    \/ ListAttachments
    \/ DownloadAttachment({"ok"})
    \/ DeleteAttachment({"ok"})
    \/ GetRead
    \/ GetAnalytics({[startDate |-> <<>>, endDate |-> <<>>, period |-> ""]})
    \/ PostAnalyticsExport
    \/ PostAnalyticsExportToday
    \/ EndExchange

SpecGate == Init /\ [][NextGate]_vars

(***************************************************************************)
(* Registration and login without a token, then the admin-only routes.     *)
(***************************************************************************)
NextLogin ==
    \/ ClientRegister(SelfRegistrations)
    \/ ClientLogin(LoginBodies)
    \/ PostImportConversations({EmptyImport}, MaxConvs)
    \/ PostRocketchatExport
    \/ PostImportDirect({<<>>})
    \/ EndExchange

SpecLogin == Init /\ [][NextLogin]_vars

(***************************************************************************)
(* The attachment routes over conversations created, joined and deleted.   *)
(***************************************************************************)
AttachmentConversationBodies ==
    { OpenConversationBody,
      [title |-> "T", type |-> "1to1", assigned_doctor_id |-> 3] }

NextAttachments ==
    \/ PostConversations(AttachmentConversationBodies)
    \/ JoinConversation
    \/ DeleteConversation
    \/ PostUpload(UploadFiles, StorageOutcomes)
    \/ ListAttachments
    \/ DownloadAttachment(StorageOutcomes)
    \/ DeleteAttachment(StorageOutcomes)
    \/ EndExchange

SpecAttachments == Init /\ [][NextAttachments]_vars

(***************************************************************************)
(* Registration alone, over every shape of request body.                   *)
(***************************************************************************)
NextRegister ==
    \/ PostRegister(RegisterBodies)
    \/ EndExchange

SpecRegister == Init /\ [][NextRegister]_vars

(***************************************************************************)
(* The getters over environments and settings files: a variable or a field *)
(* unset, empty, left as a placeholder, or given a value; the other        *)
(* variables all set or all unset.                                         *)
(***************************************************************************)
\* The placeholder each setting may be left at. The getters name none for
\* the blob storage connection string; it is given that of the other
\* connection string.
Placeholder ==
    [ ResourceConnectionString |-> "REPLACE_WITH_CONNECTION_STRING",
      EndpointUrl |-> "REPLACE_WITH_ENDPOINT_URL",
      AdminUserId |-> "REPLACE_WITH_ADMIN_USER_ID",
      AzureBlobStorageConnectionString |-> "REPLACE_WITH_CONNECTION_STRING" ]

SettingTexts(key, from) ==
    { <<>>,
      <<Placeholder[key]>>,
      <<from>>,
      <<"https:", "//", from>>,
      <<"https:", "//", from, "/", "chat">> }

SettingValues(key, from) == {undefined} \cup {Text(t) : t \in SettingTexts(key, from)}

\* One variable takes any value, the others are all set or all unset.
Environments ==
    UNION { { [key \in SettingKeys |-> IF key = one THEN value ELSE others] :
                value \in SettingValues(one, "env"),
                others \in {undefined, Text(<<"https:", "//", "other">>)} } :
            one \in SettingKeys }

SettingFiles ==
    { [exists |-> FALSE, settings |-> [key \in SettingKeys |-> undefined]] }
    \cup UNION { { [exists |-> TRUE,
                    settings |-> [key \in SettingKeys |->
                                     IF key = one THEN value ELSE undefined]] :
                    value \in SettingValues(one, "file") } :
                  one \in SettingKeys }

NextSettings ==
    \/ GetSetting(Environments, SettingFiles)
    \/ EndExchange

SpecSettings == Init /\ [][NextSettings]_vars

(***************************************************************************)
(* Startup over the stores a database file may hold: any of the six seeded *)
(* rows missing, a seeded email registered under another role, and a user  *)
(* who registered.                                                         *)
(***************************************************************************)
PriorUserRows ==
    SeedUsers \cup { [id |-> 1, email |-> DoctorEmail, role |-> "patient"],
                     [id |-> MaxUsers, email |-> NewEmail, role |-> "patient"] }

MaxId(users) == IF users = {} THEN 0 ELSE CHOOSE i \in {u.id : u \in users} :
                                              \A u \in users : u.id <= i

\* The users tables: the id is the primary key and the email is UNIQUE.
PriorUsers ==
    { users \in SUBSET PriorUserRows :
        \A u, v \in users : (u.id = v.id \/ u.email = v.email) => u = v }

PriorStores ==
    { [initializeDatabase EXCEPT
          !.users = users,
          !.password_hash = {[id |-> u.id, hash |-> hashSync(DemoPassword(u.email))] :
                               u \in users},
          !.seq.users = MaxId(users)] :
        users \in PriorUsers }

InitStartup ==
    /\ db \in PriorStores
    /\ resp = NoRequest
    /\ calls = [s \in Calls |-> NoCall]
    /\ client = NoClient

NextStartup ==
    \/ Startup
    \/ PostRegister(WellFormedRegisterBodies)
    \/ EndExchange

SpecStartup == InitStartup /\ [][NextStartup]_vars

\* Registrations and imports running interleaved.
NextRace ==
    \E s \in Calls :
        \/ RegisterStart(s, RaceBodies)
        \/ RegisterLookup(s)
        \/ RegisterInsert(s)
        \/ RegisterReadBack(s)
        \/ ImportStart(s, RaceBundles)
        \/ ImportLookup(s)
        \/ ImportInsert(s)
        \/ ImportReadBack(s)
        \/ ImportStore(s)

SpecRace == Init /\ [][NextRace]_vars

(***************************************************************************)
(* Imports of arrays of several bundles, well-formed and not.              *)
(***************************************************************************)
BatchBundle(title, participants) ==
    [title |-> title, source_id |-> "S", type |-> "1to1", hasParticipants |-> TRUE,
     participants |-> participants, hasMessages |-> TRUE, isNull |-> FALSE]

\* JSON null as an element of the array.
NullBundle ==
    [title |-> "", source_id |-> "", type |-> "", hasParticipants |-> FALSE,
     participants |-> <<>>, hasMessages |-> FALSE, isNull |-> TRUE]

BatchBundles ==
    { BatchBundle("T", << [email |-> DoctorEmail, role |-> <<"u", "s", "e", "r">>] >>),
      BatchBundle("T", << [email |-> NewEmail, role |-> <<"D", "r">>] >>),
      BatchBundle("E", <<>>),
      BatchBundle("F", << [email |-> <<>>, role |-> <<"u", "s", "e", "r">>] >>),
      BatchBundle("", << [email |-> PatientEmail, role |-> <<"u", "s", "e", "r">>] >>),
      NullBundle }

BatchFiles ==
    {[present |-> TRUE, mimetype |-> "application/json", oversize |-> FALSE,
      content |-> "array", conversations |-> a] :
        a \in UNION {[1..n -> BatchBundles] : n \in 0..MaxImported}}

\* The admin who was answered by the import sends the same file once more.
RepeatImport(cap) ==
    /\ resp.route = "POST /import/conversations"
    /\ resp.by = "handler"
    /\ LET g == Gate(db, resp.token, requireAdmin)
           m == importUpload(resp.req)
           r == postImportConversations(db, resp.req)
       IN /\ g.status = 0
          /\ m.status = 0
          /\ WithinImport(r, cap)
          /\ Respond("POST /import/conversations", resp.token, g.user, "handler",
                     resp.req, r)

NextImport ==
    \/ PostImportConversations(BatchFiles, MaxImported)
    \/ RepeatImport(2 * MaxImported)
    \/ EndExchange

SpecImport == Init /\ [][NextImport]_vars

(***************************************************************************)
(* The analytics of conversations created and imported on several days.    *)
(***************************************************************************)
OneBundleFile ==
    [present |-> TRUE, mimetype |-> "application/json", oversize |-> FALSE,
     content |-> "array",
     conversations |->
        << BatchBundle("T", << [email |-> DoctorEmail, role |-> <<"u", "s", "e", "r">>] >>) >>]

NextAnalytics ==
    \/ PostConversations({OpenConversationBody})
    \/ PostImportConversations({OneBundleFile}, MaxImported)
    \/ PatchConversation({"archived"})
    \/ GetAnalytics(AnalyticsQueries)
    \/ PostAnalyticsExport
    \/ PostAnalyticsExportToday
    \/ Tick
    \/ EndExchange

SpecAnalytics == Init /\ [][NextAnalytics]_vars

\* The exporter reads one room at a time.
Pager == CHOOSE s \in Calls : TRUE

NextPaging ==
    \/ PagingStart(Pager)
    \/ PagingIteration(Pager)
    \/ PagingReturn(Pager)

\* Every request to the server is answered, and the sort returns.
SpecPaging ==
    /\ Init /\ [][NextPaging]_vars
    /\ WF_vars(PagingIteration(Pager))
    /\ WF_vars(PagingReturn(Pager))

\* One aggregate promise and the callbacks of its sub-queries in every
\* order; SQLite answers every statement.
Aggregator == CHOOSE s \in Calls : TRUE

NextAggregate ==
    \/ AggregateStart(Aggregator)
    \/ AggregateCallback(Aggregator)

SpecAggregate ==
    /\ Init /\ [][NextAggregate]_vars
    /\ WF_vars(AggregateCallback(Aggregator))

\* Joins and uploads in flight while conversations are created and deleted.
NextCascade ==
    \/ PostConversations(AttachmentConversationBodies)
    \/ DeleteConversation
    \/ EndExchange
    \/ \E s \in Calls :
        \/ JoinStart(s)
        \/ JoinInsert(s)
        \/ UploadStart(s, {SmallPng}, StorageOutcomes)
        \/ UploadStore(s)

SpecCascade == Init /\ [][NextCascade]_vars

(***************************************************************************)
(* Properties.                                                             *)
(***************************************************************************)
\* The role sets the routes are documented to admit.
AllowedRoles ==
    [ r \in { "POST /conversations", "PATCH /conversations/:id",
              "DELETE /conversations/:id", "POST /conversations/:id/join",
              "GET /conversations/:id/export", "GET /analytics",
              "GET /analytics/summary", "POST /analytics/export",
              "POST /analytics/export/today", "POST /import/rocketchat/export",
              "POST /import/conversations", "POST /import/conversations/direct" } |->
        IF r = "POST /conversations" THEN {"patient"}
        ELSE IF r \in { "PATCH /conversations/:id", "DELETE /conversations/:id",
                        "POST /conversations/:id/join", "GET /conversations/:id/export" }
        THEN {"doctor", "admin"}
        ELSE IF r \in { "GET /analytics", "GET /analytics/summary",
                        "POST /analytics/export", "POST /analytics/export/today" }
        THEN {"admin", "quality"}
        ELSE {"admin"} ]

\* The user the presented token names, as the store held it when the request came.
TokenUser == {u \in resp.pre.users : resp.token.kind = "valid" /\ u.id = resp.token.id}

GatedRoutes ==
    DOMAIN AllowedRoles \cup
        { "GET /conversations", "GET /conversations/:id",
          "POST /attachments/upload/:conversationId", "GET /attachments/:conversationId",
          "GET /attachments/download/:attachmentId", "DELETE /attachments/:attachmentId",
          "GET /users/doctors", "GET /users/profile" }

\* C2: behind authenticateToken, no token is answered 401 "Access token
\* required", a token that fails verification 403, a verified token of an
\* unknown user id 401; in each case authenticateToken itself answers, so
\* neither the role gate nor the handler runs, and the store is untouched.
C2_AuthenticateToken ==
    resp.route \in GatedRoutes =>
        /\ resp.token.kind = "none" =>
               /\ resp.status = 401
               /\ resp.message = "Access token required"
               /\ resp.by = "authenticateToken"
               /\ db = resp.pre
        /\ resp.token.kind = "invalid" =>
               /\ resp.status = 403
               /\ resp.by = "authenticateToken"
               /\ db = resp.pre
        /\ (resp.token.kind = "valid" /\ TokenUser = {}) =>
               /\ resp.status = 401
               /\ resp.by = "authenticateToken"
               /\ db = resp.pre

\* C2 witness: a verified token of a user id the store does not hold was
\* answered 401 on the upload route.
C2_Witness ==
    /\ resp.route = "POST /attachments/upload/:conversationId"
    /\ resp.token.kind = "valid"
    /\ TokenUser = {}
    /\ resp.status = 401

\* The caller of the recorded exchange, once authenticateToken attached it.
Caller == CHOOSE u \in TokenUser : TRUE

IsParticipant(u, c) ==
    \E p \in resp.pre.participants : p.conversation_id = c.id /\ p.user_id = u.id

\* C3: for an existing conversation GET /conversations/:id answers 200
\* exactly to an admin, a participant, the creator, or a doctor when the
\* conversation is 1toN or assigned to that doctor, and 403 to anyone else.
C3_GetConversationAccess ==
    (resp.route = "GET /conversations/:id" /\ resp.by = "handler") =>
        \A c \in resp.pre.conversations :
            c.id = resp.req.id =>
                LET allowed ==
                        \/ Caller.role = "admin"
                        \/ IsParticipant(Caller, c)
                        \/ c.creator_id = Caller.id
                        \/ (Caller.role = "doctor" /\
                                (c.type = "1toN" \/ c.assigned_doctor_id = Caller.id))
                IN /\ allowed => resp.status = 200
                   /\ ~allowed => resp.status = 403

\* C3 witness: a doctor who is neither participant nor assignee of a 1to1
\* conversation was answered 403.
C3_Witness ==
    /\ resp.route = "GET /conversations/:id"
    /\ resp.by = "handler"
    /\ resp.status = 403
    /\ Caller.role = "doctor"
    /\ \E c \in db.conversations : c.id = resp.req.id /\ c.type = "1to1"

ConversationDataRoutes ==
    { "GET /conversations", "GET /conversations/:id",
      "POST /attachments/upload/:conversationId", "GET /attachments/:conversationId",
      "GET /attachments/download/:attachmentId", "DELETE /attachments/:attachmentId" }

\* C4: a request of a quality user to GET /conversations,
\* GET /conversations/:id or an /attachments route is never answered 2xx.
C4_QualityReadsNoConversation ==
    (resp.route \in ConversationDataRoutes /\ TokenUser # {} /\ Caller.role = "quality") =>
        resp.status \notin 200..299

\* C5: POST /conversations of type 1to1 without assigned_doctor_id, or with
\* one that is not the id of a doctor, is answered 400 by the handler and
\* leaves the conversations and participants tables as they were.
C5_OneToOneNeedsDoctor ==
    ( /\ resp.route = "POST /conversations"
      /\ resp.by = "handler"
      /\ resp.req.type = "1to1"
      /\ \/ resp.req.assigned_doctor_id = NULL
         \/ ~ \E u \in resp.pre.users :
                  u.id = resp.req.assigned_doctor_id /\ u.role = "doctor" ) =>
        /\ resp.status = 400
        /\ db.conversations = resp.pre.conversations
        /\ db.participants = resp.pre.participants

\* C5 witness: a 1to1 request naming a patient as the doctor was answered 400.
C5_Witness ==
    /\ resp.route = "POST /conversations"
    /\ resp.by = "handler"
    /\ resp.req.title # ""
    /\ resp.req.type = "1to1"
    /\ \E u \in resp.pre.users : u.id = resp.req.assigned_doctor_id /\ u.role = "patient"
    /\ resp.status = 400

\* C6: every 1to1 conversation row has a non-null assigned_doctor_id that
\* is the id of a doctor (users are never deleted and roles never change, so
\* the role now is the role at creation).
C6_OneToOneHasDoctor ==
    \A c \in db.conversations :
        c.type = "1to1" =>
            /\ c.assigned_doctor_id # NULL
            /\ \E u \in db.users : u.id = c.assigned_doctor_id /\ u.role = "doctor"

\* local@domain.tld: one "@", no whitespace, a non-empty local part, and a
\* domain with a "." that is neither its first nor its last character.
LocalAtDomainTld(e) ==
    /\ Cardinality({k \in 1..Len(e) : e[k] = "@"}) = 1
    /\ \A k \in 1..Len(e) : e[k] # " "
    /\ LET at == CHOOSE k \in 1..Len(e) : e[k] = "@" IN
       /\ at > 1
       /\ \E k \in (at + 2)..(Len(e) - 1) : e[k] = "."

\* C7: POST /auth/register answers 201 and adds exactly one user row (of
\* the requested email and role) when all four fields are present, the role
\* is one of the four roles, the email has the local@domain.tld shape, the
\* password has 6 characters or more and the email is not taken; otherwise
\* it answers 400 and the users table is as it was.
C7_RegisterIffValid ==
    resp.route = "POST /auth/register" =>
        LET b == resp.req
            valid ==
                /\ b.email # <<>> /\ b.password # 0 /\ b.role # "" /\ b.display_name # ""
                /\ b.role \in {"patient", "doctor", "admin", "quality"}
                /\ LocalAtDomainTld(b.email)
                /\ b.password >= 6
                /\ ~ \E u \in resp.pre.users : u.email = b.email
        IN IF valid
           THEN /\ resp.status = 201
                /\ \E row \in db.users :
                       /\ row \notin resp.pre.users
                       /\ row.email = b.email
                       /\ row.role = b.role
                       /\ db.users = resp.pre.users \cup {row}
           ELSE /\ resp.status = 400
                /\ db.users = resp.pre.users

\* C7 witness: a well-formed registration of a quality user was answered 201.
C7_Witness ==
    /\ resp.route = "POST /auth/register"
    /\ resp.status = 201
    /\ resp.req.role = "quality"
    /\ Cardinality(db.users) = Cardinality(resp.pre.users) + 1

\* The upload exchanges that found a file and an existing conversation.
UploadOnConversation ==
    /\ resp.route = "POST /attachments/upload/:conversationId"
    /\ resp.by \in {"upload", "handler"}
    /\ resp.req.file.present
    /\ \E c \in resp.pre.conversations : c.id = resp.req.id

UploadAdmissible ==
    /\ resp.req.file.mimetype \in ALLOWED_FILE_TYPES
    /\ resp.req.file.size <= 50 * 1024 * 1024
    /\ \E c \in resp.pre.conversations :
           /\ c.id = resp.req.id
           /\ \/ Caller.role = "admin"
              \/ IsParticipant(Caller, c)
              \/ c.creator_id = Caller.id
              \/ (Caller.role = "doctor" /\ c.assigned_doctor_id = Caller.id)

UploadStored ==
    /\ resp.status = 201
    /\ \E a \in db.attachments :
           /\ a \notin resp.pre.attachments
           /\ db.attachments = resp.pre.attachments \cup {a}

\* C9 as stated: an upload on an existing conversation is answered 201 and
\* stores exactly one attachment row if and only if the type is allowed, the
\* size is at most 50 MiB and the caller has access.
C9_UploadIffAdmissible ==
    UploadOnConversation => (UploadStored <=> UploadAdmissible)

\* C9 amended: ... if and only if the type is allowed, the size is at most
\* 50 MiB, the caller has access, and the blob storage is configured and
\* takes the blob; in every other case no attachment row is stored, and an
\* admissible upload that the storage does not take is answered 500.
C9_UploadIffAdmissibleAndStored ==
    UploadOnConversation =>
        /\ UploadStored <=> (UploadAdmissible /\ resp.req.storage = "ok")
        /\ ~UploadStored => db.attachments = resp.pre.attachments
        /\ (UploadAdmissible /\ resp.req.storage # "ok") => resp.status = 500

\* C9 witness: an admissible upload of exactly 50 MiB by a participant who is
\* not an admin was stored.
C9_Witness ==
    /\ UploadOnConversation
    /\ UploadStored
    /\ resp.req.file.size = 50 * 1024 * 1024
    /\ Caller.role = "doctor"

\* C10: an upload of a file of more than 50 MiB is answered 400, whatever
\* its type, and stores no attachment row.
C10_OversizeIs400 ==
    ( /\ resp.route = "POST /attachments/upload/:conversationId"
      /\ resp.by \in {"upload", "handler"}
      /\ resp.req.file.present
      /\ resp.req.file.size > 50 * 1024 * 1024 ) =>
        /\ resp.status = 400
        /\ db.attachments = resp.pre.attachments

\* The reports, over all requests, of having created the user of an address.
CreationReports(email) ==
    {si \in UNION {{s} \X DOMAIN calls[s].createdUsers : s \in Calls} :
        calls[si[1]].createdUsers[si[2]].email = email}

\* C8: whatever the interleaving of the lookups and inserts of concurrent
\* registrations and imports, the users table never holds two rows of one
\* email, and at most one request reports having created the user of an email.
C8_EmailUniqueUnderConcurrency ==
    /\ \A u, v \in db.users : u.email = v.email => u = v
    /\ \A u \in db.users : Cardinality(CreationReports(u.email)) <= 1
    /\ Cardinality(CreationReports(NewEmail)) <= 1

\* C8 witness: a registration and an import both found the address free; the
\* import inserted it and reported it, the registration's insert was rejected.
C8_Witness ==
    \E s, t \in Calls :
        /\ calls[s].op = "register"
        /\ calls[s].pc = "done"
        /\ calls[s].body.email = NewEmail
        /\ calls[s].message = "Registration failed"
        /\ calls[t].op = "import"
        /\ \E si \in CreationReports(NewEmail) : si[1] = t
        /\ Cardinality({u \in db.users : u.email = NewEmail}) = 1

\* C11: DELETE /attachments/:attachmentId of an existing attachment removes
\* its row (and only it) and answers 200 exactly when the caller is the
\* uploader or an admin, whether or not the blob could be deleted; any other
\* caller is answered 403 and the attachments table stays as it was.
C11_DeleteByUploaderOrAdmin ==
    (resp.route = "DELETE /attachments/:attachmentId" /\ resp.by = "handler") =>
        \A a \in resp.pre.attachments :
            a.id = resp.req.id =>
                IF Caller.role = "admin" \/ a.uploader_id = Caller.id
                THEN /\ resp.status = 200
                     /\ db.attachments = resp.pre.attachments \ {a}
                ELSE /\ resp.status = 403
                     /\ db.attachments = resp.pre.attachments

\* C11 witness: the uploader, not an admin, deleted the record while the blob
\* deletion failed.
C11_Witness ==
    /\ resp.route = "DELETE /attachments/:attachmentId"
    /\ resp.by = "handler"
    /\ resp.status = 200
    /\ resp.req.storage # "ok"
    /\ Caller.role # "admin"
    /\ \E a \in resp.pre.attachments : a.id = resp.req.id /\ a.uploader_id = Caller.id
    /\ db.attachments = {}

\* The conversation ids handed out so far whose row is gone; a row leaves the
\* table only through a successful DELETE /conversations/:id.
DeletedConversationIds ==
    {id \in 1..db.seq.conversations : ~ \E c \in db.conversations : c.id = id}

\* C12: once DELETE /conversations/:id has answered success, no participant,
\* metadata or attachment row refers to the deleted conversation, also when
\* joins and uploads for it were in flight during the delete.
C12_DeleteLeavesNoRow ==
    \A id \in DeletedConversationIds :
        /\ ~ \E p \in db.participants : p.conversation_id = id
        /\ ~ \E m \in db.metadata : m.conversation_id = id
        /\ ~ \E a \in db.attachments : a.conversation_id = id

\* The rows of a participants table for one conversation and one user.
PairRows(table, conversationId, userId) ==
    {p \in table : p.conversation_id = conversationId /\ p.user_id = userId}

\* C13: POST /conversations/:id/join of an existing conversation answers 403
\* to a doctor when the conversation is not 1toN and adds no row; it answers
\* 200 to an admin on any conversation and to a doctor on a 1toN one, after
\* which the table holds exactly one row for the caller and the conversation
\* and every other row is as before, however often the caller has joined; no
\* state holds two rows for one pair.
C13_JoinIdempotent ==
    /\ \A p, q \in db.participants :
           (p.conversation_id = q.conversation_id /\ p.user_id = q.user_id) => p = q
    /\ (resp.route = "POST /conversations/:id/join" /\ resp.by = "handler") =>
           \A c \in resp.pre.conversations :
               c.id = resp.req.id =>
                   IF Caller.role = "doctor" /\ c.type # "1toN"
                   THEN /\ resp.status = 403
                        /\ db.participants = resp.pre.participants
                   ELSE /\ resp.status = 200
                        /\ Cardinality(PairRows(db.participants, c.id, Caller.id)) = 1
                        /\ resp.pre.participants \subseteq db.participants
                        /\ db.participants \ resp.pre.participants
                               \subseteq PairRows(db.participants, c.id, Caller.id)

\* C13 witness: a doctor who already was a participant joined again, was
\* answered 200, and the table is as it was.
C13_Witness ==
    /\ resp.route = "POST /conversations/:id/join"
    /\ resp.by = "handler"
    /\ resp.status = 200
    /\ Caller.role = "doctor"
    /\ PairRows(resp.pre.participants, resp.req.id, Caller.id) # {}
    /\ db.participants = resp.pre.participants

\* C14: an import of an array of bundles never aborts early: the request is
\* answered 200, successful + failed is the number of bundles, and errors
\* holds one entry per failed bundle.
ImportedArray ==
    /\ resp.route = "POST /import/conversations"
    /\ resp.by = "handler"
    /\ resp.req.content = "array"

C14_ImportNeverAborts ==
    ImportedArray =>
        /\ resp.status = 200
        /\ resp.data.successful + resp.data.failed = Len(resp.req.conversations)
        /\ Len(resp.data.errors) = resp.data.failed

\* The same, for arrays none of whose elements is null.
C14_ImportCountsEveryObject ==
    (ImportedArray /\ \A k \in DOMAIN resp.req.conversations :
                        ~resp.req.conversations[k].isNull) =>
        /\ resp.status = 200
        /\ resp.data.successful + resp.data.failed = Len(resp.req.conversations)
        /\ Len(resp.data.errors) = resp.data.failed

\* Three bundles of which one has no participant: successful 2, failed 1.
C14_ThreeBundles ==
    /\ ImportedArray
    /\ Len(resp.req.conversations) = 3
    /\ resp.status = 200
    /\ resp.data.successful = 2
    /\ resp.data.failed = 1
    /\ resp.data.errors = <<"E">>

\* The second of two imports of one file, the first of which was answered 200.
SecondImport ==
    /\ resp.route = "POST /import/conversations" /\ resp.by = "handler"
    /\ resp.status = 200
    /\ resp'.route = "POST /import/conversations" /\ resp'.by = "handler"
    /\ resp'.req = resp.req

\* The participant e-mails of the bundles of an array that satisfy valid.
ParticipantEmails(conversations, valid(_)) ==
    UNION {{conversations[k].participants[j].email :
                j \in DOMAIN conversations[k].participants} :
            k \in {i \in DOMAIN conversations : valid(conversations[i])}} \ {<<>>}

AnyBundle(convData) == TRUE

SkippedAsExisting(data, emails) ==
    \A e \in emails :
        \E k \in DOMAIN data.skippedUsers :
            data.skippedUsers[k] = [email |-> e, reason |-> "User already exists"]

ValidBundle(convData) ==
    convData.title # "" /\ convData.hasParticipants /\ convData.hasMessages

NeitherShape == {"null", "scalar", "object"}

\* C16: POST /import/conversations by an admin answers 400 "Import file is
\* required" without a file, 400 "Invalid JSON file format" when the content
\* does not parse, and 400 when the parsed value is neither an array nor an
\* object with a conversations array; in each case no row is created.
C16_ImportRejectsBadFile ==
    (resp.route = "POST /import/conversations" /\ resp.by = "handler") =>
        /\ ~resp.req.present =>
              resp.status = 400 /\ resp.message = "Import file is required"
        /\ (resp.req.present /\ resp.req.content = "notjson") =>
              resp.status = 400 /\ resp.message = "Invalid JSON file format"
        /\ (resp.req.present /\ resp.req.content \in NeitherShape) =>
              resp.status = 400
        /\ (~resp.req.present \/ resp.req.content \in NeitherShape \cup {"notjson"}) =>
              db = resp.pre

\* The same with the parsed value null left aside.
C16_ImportRejectsBadFileNotNull ==
    (resp.route = "POST /import/conversations" /\ resp.by = "handler"
        /\ ~(resp.req.present /\ resp.req.content = "null")) =>
        /\ ~resp.req.present =>
              resp.status = 400 /\ resp.message = "Import file is required"
        /\ (resp.req.present /\ resp.req.content = "notjson") =>
              resp.status = 400 /\ resp.message = "Invalid JSON file format"
        /\ (resp.req.present /\ resp.req.content \in NeitherShape) =>
              resp.status = 400
        /\ (~resp.req.present \/ resp.req.content \in NeitherShape \cup {"notjson"}) =>
              db = resp.pre

\* A range query of GET /analytics with startDate <= endDate.
RangeQuery ==
    /\ resp.route = "GET /analytics" /\ resp.by = "handler"
    /\ resp.req.period # "today"
    /\ resp.req.startDate # <<>> /\ resp.req.endDate # <<>>
    /\ textLeq(resp.req.startDate, resp.req.endDate)

\* The day of a timestamp 'YYYY-MM-DD HH:MM:SS'.
DayOf(timestamp) == SubSeq(timestamp, 1, Len(dayText(1)))

\* C17: for day strings startDate <= endDate, totalConversations is the number
\* of conversation rows created on a day of [startDate, endDate], both bound
\* days included.
C17_RangeCountsBothBoundDays ==
    RangeQuery =>
        resp.data.totalConversations =
            Cardinality({c \in resp.pre.conversations :
                            /\ textLeq(resp.req.startDate, DayOf(c.created_at))
                            /\ textLeq(DayOf(c.created_at), resp.req.endDate)})

\* What the range aggregate counts: the rows created on a day from startDate
\* to the day before endDate.
C17_RangeLeavesOutEndDay ==
    RangeQuery =>
        resp.data.totalConversations =
            Cardinality({c \in resp.pre.conversations :
                            /\ textLeq(resp.req.startDate, DayOf(c.created_at))
                            /\ textLeq(DayOf(c.created_at), resp.req.endDate)
                            /\ DayOf(c.created_at) # resp.req.endDate})

\* A range query over a store that holds a row of the end day.
C17_EndDayRow ==
    /\ RangeQuery
    /\ \E c \in resp.pre.conversations : DayOf(c.created_at) = resp.req.endDate

\* C18: the two export routes always answer a body {success, message} made
\* by the service, never by the route's own catch: 200 with success true only
\* when the document was indexed; 500, success false and "Unable to connect to
\* Elasticsearch" when the connection test fails; 500, success false and
\* "Export failed: <reason>" when a later step throws; on every failure no
\* document is indexed.
C18_ExportAnswers ==
    (resp.route \in ExportRoutes /\ resp.by = "handler") =>
        /\ resp.data.success \in BOOLEAN
        /\ resp.status = (IF resp.data.success THEN 200 ELSE 500)
        /\ resp.data.success => resp.data.indexed /\ resp.req.search = "indexed"
        /\ ~resp.data.success => ~resp.data.indexed
        /\ resp.req.search = "unreachable" =>
              /\ ~resp.data.success
              /\ resp.data.message = <<"Unable to connect to Elasticsearch">>
        /\ resp.req.search \in {"no index", "no analytics", "not indexed"} =>
              /\ ~resp.data.success
              /\ resp.data.message = <<"Export failed: ", errorMessage(resp.req.search)>>
        /\ resp.req.search = "indexed" => resp.data.success
        /\ db = resp.pre

\* An export whose index call is rejected after the connection test passed.
C18_Witness ==
    /\ resp.route \in ExportRoutes /\ resp.by = "handler"
    /\ resp.req.search = "not indexed"
    /\ resp.status = 500
    /\ resp.data.message[1] = "Export failed: "

\* The number of times a message occurs in a list.
Occurrences(messages, m) == Cardinality({k \in DOMAIN messages : messages[k] = m})

\* The call has returned every message it fetched.
ReturnedEveryFetched(c) ==
    /\ Len(c.returned) = Len(c.allMessages)
    /\ \A m \in Messages : Occurrences(c.returned, m) = Occurrences(c.allMessages, m)

\* The messages that carry a timestamp come in ascending order of it.
AscendingByTs(messages) ==
    \A i, j \in DOMAIN messages :
        (i < j /\ messages[i].ts # NULL /\ messages[j].ts # NULL) =>
            messages[i].ts <= messages[j].ts

EveryTs(messages) == \A k \in DOMAIN messages : messages[k].ts # NULL

\* An iteration of the loop either stops the loop or moves the cursor to the
\* ts of the last message of the batch it fetched.
IterationStopsOrMovesCursor ==
    \A s \in Calls :
        (calls[s].op = "paging" /\ calls[s].pc = "fetch" /\ calls'[s] # calls[s]) =>
            \/ calls'[s].pc = "sort"
            \/ /\ calls'[s].messages # <<>>
               /\ calls'[s].oldest = calls'[s].messages[Len(calls'[s].messages)].ts

PagingTerminates ==
    \A s \in Calls :
        (calls[s].op = "paging" /\ calls[s].pc = "fetch") ~> (calls[s].pc = "done")

\* C19 as stated: against a server answering successively smaller batches
\* down to an empty one, getAllMessagesFromRoom terminates and returns every
\* fetched message sorted ascending by timestamp (the empty list when the
\* first batch is empty), and each iteration stops or moves the cursor.
C19_PagingSortsEveryBackend ==
    /\ [](\A s \in Calls :
            (calls[s].op = "paging" /\ calls[s].pc = "done") =>
                /\ ReturnedEveryFetched(calls[s])
                /\ AscendingByTs(calls[s].returned))
    /\ [][IterationStopsOrMovesCursor]_vars
    /\ PagingTerminates

\* C19 amended: the same, the order being ascending when every fetched
\* message carries a timestamp.
C19_PagingSortsStampedMessages ==
    /\ [](\A s \in Calls :
            (calls[s].op = "paging" /\ calls[s].pc = "done") =>
                /\ ReturnedEveryFetched(calls[s])
                /\ EveryTs(calls[s].allMessages) => AscendingByTs(calls[s].returned))
    /\ [][IterationStopsOrMovesCursor]_vars
    /\ PagingTerminates

\* A call that fetched a full batch and a smaller one, every message with a
\* timestamp and not in ascending order, and has returned.
C19_Witness ==
    \E s \in Calls :
        /\ calls[s].op = "paging" /\ calls[s].pc = "done"
        /\ Len(calls[s].allMessages) > PageSize
        /\ EveryTs(calls[s].allMessages)
        /\ ~AscendingByTs(calls[s].allMessages)
        /\ AscendingByTs(calls[s].returned)

\* A call answered with an empty first batch has returned the empty list.
C19_EmptyFirstBatch ==
    \E s \in Calls :
        /\ calls[s].op = "paging" /\ calls[s].pc = "done"
        /\ calls[s].oldest = NULL
        /\ calls[s].returned = <<>>

\* An export that reached getThreadMessages.
ExportedThread ==
    /\ resp.route = "GET /conversations/:id/export" /\ resp.by = "handler"
    /\ resp.status \notin {400, 404}

\* C20: getThreadMessages never fails its caller: for any thread, without a
\* connection string or when a step of the real path fails, it returns the
\* same three canned messages, each with a non-empty message, a sender of
\* kind communicationUser and a communicationUserId.
C20_ThreadMessagesFallBack ==
    ExportedThread =>
        /\ resp.status = 200
        /\ resp.req.chat # "listed" =>
              /\ resp.data.messages = formattedMessages(DemoMessages)
              /\ Len(resp.data.messages) = 3
              /\ \A k \in DOMAIN resp.data.messages :
                    /\ resp.data.messages[k].content # ""
                    /\ resp.data.messages[k].sender_id \notin {"null", ""}

\* An export whose listing of the thread failed part-way.
C20_Witness ==
    /\ ExportedThread
    /\ resp.req.chat = "listing failed"
    /\ resp.req.listing # <<>>
    /\ Len(resp.data.messages) = 3

DemoEmails ==
    {AdminEmail, QualityEmail, DoctorEmail, PatientEmail, Doctor2Email, Patient2Email}

\* A startup has just completed.
StartedUp == resp.route = "startup"

\* C21: startup seeding is idempotent: after startup has completed on any
\* prior store, exactly one user row exists for each of the six demo
\* emails, and running startup again adds no user row and modifies none.
C21_StartupIdempotent ==
    /\ [](StartedUp =>
            /\ \A email \in DemoEmails :
                  Cardinality({u \in db.users : u.email = email}) = 1
            /\ resp.pre.users \subseteq db.users)
    /\ [][(StartedUp /\ resp'.route = "startup") => db' = db]_vars

\* A startup that completed on a store holding some of the six rows and a
\* seeded email under another role, and had rows to add.
C21_Witness ==
    /\ StartedUp
    /\ \E u \in resp.pre.users : u.email = DoctorEmail /\ u.role = "patient"
    /\ \E u \in resp.pre.users : u.email = QualityEmail
    /\ Cardinality(db.users) > Cardinality(resp.pre.users) + 2

\* A startup run again on the store a startup left.
C21_SecondStartup ==
    /\ StartedUp
    /\ resp.pre = db
    /\ \A email \in DemoEmails : \E u \in db.users : u.email = email

\* A getter has been called; the variable and the field it reads.
SettingRead == resp.by = "envHelper"
EnvValue == resp.req.env[Getters[resp.route]]
FileValue == resp.req.file.settings[Getters[resp.route]]

\* The value the getter resolves: the variable when it is set to a
\* non-empty string, else the field of the settings file when the file was
\* loaded, else nothing.
ResolvedValue ==
    IF ~falsy(EnvValue) THEN EnvValue
    ELSE IF loadAppSettings(resp.req.env, resp.req.file).loaded THEN FileValue
    ELSE undefined

IsPlaceholder(value) ==
    value.defined /\ value.text = <<Placeholder[Getters[resp.route]]>>

\* What a getter hands out for a value: the endpoint getters the
\* scheme://host of the URL, the others the value itself.
HandedOut(value) ==
    IF Getters[resp.route] = "EndpointUrl" THEN URL(value).value ELSE value.text

\* A variable that is set wins over the settings file.
EnvironmentFirst ==
    (SettingRead /\ ~falsy(EnvValue) /\ ~resp.data.thrown) =>
        resp.data.value = HandedOut(EnvValue)

\* C22 as stated: each of the five getters returns the environment
\* variable's value in preference to the settings file whenever the variable
\* is set, and throws instead of returning a value when the resolved value
\* is absent or is a literal REPLACE_WITH_... placeholder.
C22_GettersRejectPlaceholders ==
    /\ EnvironmentFirst
    /\ (SettingRead /\ (falsy(ResolvedValue) \/ IsPlaceholder(ResolvedValue))) =>
          resp.data.thrown

\* C22 without the placeholder case of getAzureBlobStorageConnectionString:
\* that getter throws when the resolved value is absent, the other four
\* when it is absent or a placeholder.
C22_GettersRejectPlaceholdersButBlobString ==
    /\ EnvironmentFirst
    /\ (SettingRead /\ falsy(ResolvedValue)) => resp.data.thrown
    /\ (SettingRead /\ IsPlaceholder(ResolvedValue)
          /\ resp.route # "getAzureBlobStorageConnectionString") => resp.data.thrown

\* getEndpoint has returned the scheme://host of a variable that is set to a
\* URL with a path.
C22_EndpointFromEnvironment ==
    /\ SettingRead /\ resp.route = "getEndpoint"
    /\ ~resp.data.thrown
    /\ Len(EnvValue.text) > Len(resp.data.value)

\* getAzureBlobStorageConnectionString has returned a placeholder.
C22_BlobStringPlaceholder ==
    /\ SettingRead /\ resp.route = "getAzureBlobStorageConnectionString"
    /\ IsPlaceholder(ResolvedValue)
    /\ ~resp.data.thrown

\* A PATCH /conversations/:id has been answered; the conversation it named
\* as the store held it when the request came.
PatchAnswered == resp.route = "PATCH /conversations/:id"
PatchedBefore == getConversationById(resp.pre, resp.req.id)

\* The caller may update the conversation: an admin, or a doctor who is a
\* participant, the assigned doctor, or the conversation is 1toN.
MayPatch(u, c) ==
    \/ u.role = "admin"
    \/ /\ u.role = "doctor"
       /\ \/ IsParticipant(u, c)
          \/ c.assigned_doctor_id = u.id
          \/ c.type = "1toN"

\* The request is one that changes the status.
PatchChanges ==
    /\ resp.by = "handler"
    /\ PatchedBefore.id # NULL
    /\ resp.req.status \in ConversationStatus
    /\ \E u \in TokenUser : MayPatch(u, PatchedBefore)

\* C23: a PATCH /conversations/:id changes the conversation's status if and
\* only if the caller is an admin, or a doctor who is a participant, the
\* assigned doctor, or the conversation is 1toN, and the supplied status is
\* one of active, readonly, archived; in every other case (403, or 400 on an
\* invalid value) the stored status is unchanged, so the stored status is
\* always one of the three values.
C23_PatchStatus ==
    /\ \A c \in db.conversations : c.status \in ConversationStatus
    /\ PatchAnswered =>
          IF PatchChanges
          THEN /\ resp.status = 200
               /\ db = [resp.pre EXCEPT !.conversations =
                            (@ \ {PatchedBefore}) \cup
                                {[PatchedBefore EXCEPT !.status = resp.req.status]}]
          ELSE /\ db = resp.pre
               /\ (resp.by = "handler" /\ PatchedBefore.id # NULL
                     /\ resp.req.status \in ConversationStatus) => resp.status = 403
               /\ (resp.by = "handler" /\ PatchedBefore.id # NULL
                     /\ resp.req.status \notin ConversationStatus \cup {""}
                     /\ \E u \in TokenUser : MayPatch(u, PatchedBefore)) =>
                        resp.status = 400

\* A doctor who is the assigned doctor has archived a 1to1 conversation.
C23_Witness ==
    /\ PatchAnswered /\ PatchChanges
    /\ \E u \in TokenUser : u.role = "doctor" /\ PatchedBefore.assigned_doctor_id = u.id
    /\ PatchedBefore.type = "1to1"
    /\ PatchedBefore.status = "active"
    /\ getConversationById(db, resp.req.id).status = "archived"

\* A doctor who is no participant and not the assigned doctor was answered
\* 403 for a valid status on a 1to1 conversation.
C23_DoctorDenied ==
    /\ PatchAnswered /\ resp.by = "handler" /\ resp.status = 403
    /\ \E u \in TokenUser : u.role = "doctor"
    /\ resp.req.status \in ConversationStatus

\* The conversations an import of an array has created.
ImportCreated ==
    {c \in db.conversations : \A b \in resp.pre.conversations : b.id # c.id}

\* The positions of a participant list whose participant resolves to a user
\* of the doctor role, and the user at a position.
ResolvedUser(participant) == getUserByEmail(db, participant.email)
DoctorPositions(participants) ==
    {k \in DOMAIN participants : ResolvedUser(participants[k]).role = "doctor"}
First(positions) == CHOOSE k \in positions : \A j \in positions : k <= j
Last(positions) == CHOOSE k \in positions : \A j \in positions : j <= k

\* An import of one bundle with more than one doctor among its participants
\* has created the bundle's conversation.
ImportedSeveralDoctors ==
    /\ ImportedArray
    /\ Len(resp.req.conversations) = 1
    /\ ImportCreated # {}
    /\ Cardinality(DoctorPositions(resp.req.conversations[1].participants)) > 1

\* C24 as stated: for every imported bundle whose participant list holds
\* more than one participant resolving to a doctor-role user, the created
\* conversation's assigned_doctor_id is the id of the first such participant
\* in list order.
C24_FirstDoctorAssigned ==
    ImportedSeveralDoctors =>
        LET participants == resp.req.conversations[1].participants IN
        \A c \in ImportCreated :
            c.assigned_doctor_id =
                ResolvedUser(participants[First(DoctorPositions(participants))]).id

\* What the loop over the participants leaves in doctorId: the id of the
\* last such participant in list order.
C24_LastDoctorAssigned ==
    ImportedSeveralDoctors =>
        LET participants == resp.req.conversations[1].participants IN
        \A c \in ImportCreated :
            c.assigned_doctor_id =
                ResolvedUser(participants[Last(DoctorPositions(participants))]).id

\* An import of a bundle of two different doctors.
C24_TwoDoctors ==
    /\ ImportedSeveralDoctors
    /\ LET participants == resp.req.conversations[1].participants IN
       ResolvedUser(participants[First(DoctorPositions(participants))]).id #
           ResolvedUser(participants[Last(DoctorPositions(participants))]).id

\* The aggregate promises under way or done.
Aggregating == {s \in Calls : calls[s].op \in Aggregates}

\* The promise of an aggregate is never settled a second time: once it is
\* fulfilled or rejected it keeps its state and its value.
SettlesOnce ==
    \A s \in Calls :
        (calls[s].op \in Aggregates /\ calls[s].promise.state # "pending") =>
            calls'[s].promise = calls[s].promise

\* C25: the analytics aggregate (eight sub-queries for the range aggregate,
\* six for the current-day aggregate) settles exactly once for every
\* ordering of sub-query completions: it resolves only after every
\* sub-query has reported success, and if any sub-query reports an error it
\* rejects with the first error and never resolves, however many other
\* sub-queries complete afterwards.
C25_AggregateSettlesOnce ==
    /\ [](\A s \in Aggregating :
            /\ calls[s].promise.state = "fulfilled" =>
                  /\ calls[s].waiting = {}
                  /\ calls[s].errorCount = 0
                  /\ calls[s].completedQueries = totalQueries(calls[s].op)
            /\ calls[s].errorCount > 0 =>
                  /\ calls[s].promise.state = "rejected"
                  /\ calls[s].promise.value = calls[s].firstError
            /\ calls[s].errorCount = 0 =>
                  calls[s].promise.state = IF calls[s].waiting = {} THEN "fulfilled"
                                           ELSE "pending")
    /\ [][SettlesOnce]_vars
    /\ \A s \in Calls :
          (calls[s].op \in Aggregates) ~>
              (calls[s].waiting = {} /\ calls[s].promise.state # "pending")

\* The range aggregate was rejected and every sub-query has completed: two
\* with an error, the other six with a result.
C25_Witness ==
    \E s \in Calls :
        /\ calls[s].op = "getAnalytics"
        /\ calls[s].pc = "done"
        /\ calls[s].promise.state = "rejected"
        /\ calls[s].errorCount = 2
        /\ calls[s].completedQueries = totalQueries("getAnalytics") - 2

\* The current-day aggregate has resolved.
C25_CurrentDayResolved ==
    \E s \in Calls :
        /\ calls[s].op = "getCurrentDayAnalytics"
        /\ calls[s].promise.state = "fulfilled"

\* checkAuth has come back from its await in this step.
CheckAuthCompletes ==
    client.app.checkAuth = "verifying" /\ client'.app.checkAuth = "done"

\* Where checkAuth falls through to.
FallsThrough ==
    client'.app.page = IF client.app.threadIdInURL THEN "configuration" ELSE "auth"

\* C26 as stated: on mount with a stored session token, if verification
\* succeeds the page becomes dashboard with the verified user; if it fails in
\* any way (a success: false response as well as a thrown network error) the
\* stored token is cleared and the page falls through to configuration when
\* the URL carries a thread id, otherwise to auth.
C26_FailedVerifyClearsToken ==
    [][CheckAuthCompletes =>
          IF client'.app.verifyResult = "verified"
          THEN client'.app.page = "dashboard" /\ client'.app.user = SessionUser
          ELSE client'.app.auth_token = "" /\ FallsThrough]_vars

\* What checkAuth does: the token is cleared when verifyToken throws, and
\* stays in localStorage when the server answers success: false.
C26_ThrownVerifyClearsToken ==
    [][CheckAuthCompletes =>
          IF client'.app.verifyResult = "verified"
          THEN client'.app.page = "dashboard" /\ client'.app.user = SessionUser
          ELSE /\ FallsThrough
               /\ client'.app.auth_token =
                     IF client'.app.verifyResult = "thrown" THEN ""
                     ELSE client.app.auth_token]_vars

\* The server has refused an expired token and the token is still stored.
C26_RefusedTokenKept ==
    /\ client.app.verifyResult = "refused"
    /\ client.app.page = "auth"
    /\ client.app.auth_token = "expired"

\* The page leaves the chat in this step, and the way the removal callback
\* leaves it: the local user is among the removed, and the page is removed
\* when somebody else removed them, end when they removed themselves.
LeavesChat == client.app.page = "chat" /\ client'.app.page # "chat"

LeavesByRemoval ==
    /\ client.app.userId \in client'.app.removal.participantsRemoved
    /\ client'.app.page \in {"removed", "end"}
    /\ client'.app.page = "removed" <=> client'.app.removal.removedBy # client.app.userId
    /\ client'.app.page = "end" <=> client'.app.removal.removedBy = client.app.userId

\* The page leaves end or removed in this step other than by rejoining, and
\* the way the home action leaves it.
LeavesEnd ==
    /\ client.app.page \in {"end", "removed"}
    /\ client'.app.page \notin {client.app.page, "chat"}

LeavesByHome ==
    IF client.app.user # NULL
    THEN client'.app.page = "dashboard" /\ client'.app.user = client.app.user
    ELSE client'.app.page = "closed" /\ client'.app.reloaded
         /\ ~client'.app.threadIdInURL

\* C27 as stated: the page leaves chat only when the chat reports that the
\* local user was removed from the thread: it becomes removed if and only if
\* the remover is a different user and end if and only if the local user
\* removed themselves; from end or removed the home action leads to
\* dashboard when a user is authenticated and otherwise reloads the bare
\* origin.
C27_LeavesChatOnlyWhenRemoved ==
    [][/\ LeavesChat => LeavesByRemoval
       /\ LeavesEnd => LeavesByHome]_vars

\* What the application does: the same in every step but the one in which
\* the checkAuth of the mount comes back from its await, which sets the
\* page whatever it is by then.
C27_LeavesChatWhenRemovedOrVerified ==
    [][IF CheckAuthCompletes
       THEN client'.app.page =
              IF client'.app.verifyResult = "verified" THEN "dashboard"
              ELSE IF client.app.threadIdInURL THEN "configuration" ELSE "auth"
       ELSE /\ LeavesChat => LeavesByRemoval
            /\ LeavesEnd => LeavesByHome]_vars

\* The page went from chat to dashboard without the local user removed: the
\* application was opened on a link with a thread id and a stored token, the
\* chat was joined before auth/verify answered, and the answer came.
C27_VerifiedOutOfChat ==
    /\ client.app.page = "dashboard"
    /\ client.app.userId = "me"
    /\ client.app.removal = NoRemoval
    /\ client.app.threadIdInURL

\* The local user was removed by somebody else and went home to the
\* dashboard.
C27_RemovedThenHome ==
    /\ client.app.page = "dashboard"
    /\ client.app.removal.removedBy = "other"
    /\ client.app.userId \in client.app.removal.participantsRemoved

\* The state of the recorder's machine: recording until the stop event of
\* a stopped recorder is delivered, then reviewing the recording; idle
\* otherwise.
RecorderState(r) ==
    IF r.isRecording \/ (~r.hasRecording /\ r.stopEvents > 0) THEN "recording"
    ELSE IF r.hasRecording THEN "reviewing"
    ELSE "idle"

\* Idle as a cancel leaves it: the dialog closed, no recording held, the
\* elapsed time 0.
Cancelled(r) ==
    /\ ~r.showRecordingDialog
    /\ ~r.hasRecording /\ ~r.recordedBlob
    /\ r.recordingTime = 0

\* The handler called in this step.
Called(handler) ==
    /\ client'.recorder.handler = handler
    /\ client'.recorder # client.recorder \/ handler = "closeRecordingDialog"
    /\ client'.recorder.stopEvents >= client.recorder.stopEvents

RecorderCycle ==
    { <<"idle", "recording">>, <<"recording", "reviewing">>, <<"reviewing", "idle">> }

\* C28 as stated: the voice recorder only moves along idle -> recording ->
\* reviewing -> idle: discard from reviewing returns to idle, send invokes
\* the upload callback and returns to idle, and cancel returns to idle from
\* every state (if recording, the recording is stopped first); after a
\* cancel, once the recorder's stop event has been delivered, the dialog is
\* closed, no recording is held, and the elapsed time is 0.
C28_CancelReturnsToIdle ==
    /\ [][LET from == RecorderState(client.recorder)
              to == RecorderState(client'.recorder)
          IN /\ (from # to /\ ~Called("closeRecordingDialog")) =>
                    <<from, to>> \in RecorderCycle
             /\ (from = "reviewing" /\ Called("discardRecording")) => to = "idle"
             /\ (from = "reviewing" /\ Called("sendRecording")) =>
                    to = "idle" /\ client'.recorder.onVoiceRecorded
             /\ Called("closeRecordingDialog") =>
                    /\ ~client'.recorder.isRecording
                    /\ client'.recorder.mediaRecorder # "recording"
                    /\ to = "idle" \/ client'.recorder.stopEvents > 0]_vars
    /\ [](( /\ client.recorder.handler = "closeRecordingDialog"
            /\ client.recorder.stopEvents = 0 ) => Cancelled(client.recorder))

\* What the component does. Discard and send close the dialog on no
\* recording and a time of 0, send after calling the upload callback.
\* Cancel stops a recorder that is recording; it closes the dialog and
\* resets the time when no recording is held, and leaves the dialog open on
\* the recording when one is held. The stop event stores the recording
\* whatever was done since the stop.
C28_CancelKeepsRecording ==
    /\ [][/\ Called("discardRecording") => Cancelled(client'.recorder)
          /\ Called("sendRecording") =>
                Cancelled(client'.recorder) /\ client'.recorder.onVoiceRecorded
          /\ Called("closeRecordingDialog") =>
                /\ ~client'.recorder.isRecording
                /\ client'.recorder.mediaRecorder # "recording"
                /\ client'.recorder.hasRecording = client.recorder.hasRecording
                /\ client'.recorder.recordedBlob = client.recorder.recordedBlob
                /\ IF client.recorder.hasRecording
                   THEN /\ client'.recorder.showRecordingDialog
                        /\ client'.recorder.recordingTime = client.recorder.recordingTime
                   ELSE /\ ~client'.recorder.showRecordingDialog
                        /\ client'.recorder.recordingTime = 0
          /\ (client'.recorder.stopEvents < client.recorder.stopEvents) =>
                client'.recorder.hasRecording /\ client'.recorder.recordedBlob]_vars
    /\ [](client.recorder.onVoiceRecorded => client.recorder.handler = "sendRecording")

\* Cancel was pressed while recording, the stop event has been delivered,
\* and the closed dialog holds the recording.
C28_CancelledRecordingHeld ==
    /\ client.recorder.handler = "closeRecordingDialog"
    /\ client.recorder.stopEvents = 0
    /\ ~client.recorder.showRecordingDialog
    /\ client.recorder.hasRecording /\ client.recorder.recordedBlob

\* Cancel was pressed while reviewing and the dialog is still open on the
\* recording.
C28_CancelWhileReviewing ==
    /\ client.recorder.handler = "closeRecordingDialog"
    /\ client.recorder.stopEvents = 0
    /\ client.recorder.showRecordingDialog
    /\ client.recorder.hasRecording

\* A recording was sent: the upload callback was called and the recorder is
\* idle.
C28_Sent ==
    /\ client.recorder.onVoiceRecorded
    /\ Cancelled(client.recorder)

\* An export or a delete of a conversation that exists was requested by a
\* doctor or an admin.
ExportOrDelete ==
    resp.route \in {"GET /conversations/:id/export", "DELETE /conversations/:id"}

ByDoctorOrAdmin == \E u \in TokenUser : u.role \in {"doctor", "admin"}

OfExisting == getConversationById(resp.pre, resp.req.id).id # NULL

\* GET /conversations/:id of the same caller on the same store answers 403.
ReadDenied ==
    \E u \in TokenUser : getConversation(resp.pre, u, resp.req.id).status = 403

C29_DeniedDoctorExports ==
    /\ resp.route = "GET /conversations/:id/export"
    /\ \E u \in TokenUser : u.role = "doctor"
    /\ OfExisting /\ ReadDenied
    /\ resp.status = 200
    /\ Len(resp.data.messages) > 0

\* The routes behind requireAdmin.
AdminOnlyRoutes ==
    {"POST /import/conversations", "POST /import/rocketchat/export",
     "POST /import/conversations/direct"}

\* The client registered as admin and holds the token of a login under the
\* email it registered.
SessionOfRegisteredAdmin ==
    /\ client.session.registered.role = "admin"
    /\ client.session.email = client.session.registered.email
    /\ client.session.auth_token.kind = "valid"

\* C30: POST /auth/register requires no authentication and accepts role
\* admin: a well-formed registration with role admin under a free email,
\* sent without a token, is answered 201 and stores an admin; only the
\* RegisterScreen's role picker keeps admin out; a login with the registered
\* email and password is answered 200 with a token, and a request under
\* that token passes the gate of every admin-only route.
C30_SelfRegisteredAdmin ==
    /\ (/\ resp.route = "POST /auth/register"
        /\ resp.req.role = "admin"
        /\ registerBodyError(resp.req) = ""
        /\ getUserByEmail(resp.pre, resp.req.email).id = NULL) =>
            /\ resp.token = NoToken
            /\ resp.status = 201
            /\ getUserByEmail(db, resp.req.email).role = "admin"
    /\ client.session.via = "RegisterScreen" => client.session.registered.role # "admin"
    /\ (/\ resp.route = "POST /auth/login"
        /\ client.session.registered.role = "admin"
        /\ resp.req.email = client.session.registered.email
        /\ resp.req.password = client.session.registered.password) =>
            /\ resp.status = 200
            /\ resp.data.token.kind = "valid"
            /\ getUserById(db, resp.data.token.id).role = "admin"
            /\ client.session.auth_token = resp.data.token
    /\ (/\ resp.route \in AdminOnlyRoutes
        /\ SessionOfRegisteredAdmin
        /\ resp.token = client.session.auth_token) =>
            /\ resp.by = "handler"
            /\ resp.status \notin {401, 403}

\* A client that registered as admin without a token and logged in has had
\* an import accepted under its token.
C30_Witness ==
    /\ resp.route = "POST /import/conversations"
    /\ SessionOfRegisteredAdmin
    /\ client.session.via = "fetch"
    /\ resp.token = client.session.auth_token
    /\ resp.token.id > Cardinality(SeedUsers)
    /\ resp.by = "handler"
    /\ resp.status = 200

\* The same client is refused when it registered as doctor.
C30_RegisteredDoctorRefused ==
    /\ resp.route \in AdminOnlyRoutes
    /\ client.session.registered.role = "doctor"
    /\ client.session.email = client.session.registered.email
    /\ resp.token = client.session.auth_token
    /\ resp.token.kind = "valid"
    /\ resp.status = 403

====
